---- MODULE Spec2Model ----
(***************************************************************************)
(* Hair by Rhi booking API: the login / lockout state machine of           *)
(* routes/auth.js, the booking handler of src/routes/requests.js and the   *)
(* admin operations (approve, reschedule, cancel) in their two versions.   *)
(* Times are minutes since server start.                                   *)
(***************************************************************************)
EXTENDS Integers, Sequences, FiniteSets, TLC

\* SQL NULL / JavaScript null for a timestamp or an id.
NULL == -1

\* ------------------------------------------------------------------ bounds
MaxTime == 45
TickMinutes == 15
MaxAttempts == 6
MaxRows == 2

\* ------------------------------------------------------- program constants
LockThreshold == 5
LockMinutes == 30
AuthLimitMax == 5
AuthWindowMinutes == 15
TokenHours == 24
RememberDays == 30

\* ------------------------------------------------------------- login data
AccountIds == {1, 2}
LoginProcs == {"h1", "h2"}
Clients == {"ip1"}
RightPassword == "s3cret!"
Passwords == {RightPassword, "wrong-pw", "short"}
Emails == {"rhi@salon", "ex@salon", "nobody@salon", "not-an-email"}

VARIABLES
  now,            \* the server clock (new Date() / Date.now() / CURRENT_TIMESTAMP)
  admin_users,    \* table admin_users, by id
  authHits,       \* the authLimiter's store: per client, hits in the window and its reset time
  login,          \* per login handler invocation: where it is and what it read
  loginRes,       \* the last response of POST /api/auth/login, with what it was asked
  wrongSince,     \* history: wrong passwords evaluated since the last successful login, per account
  db,             \* the committed rows of customers, appointment_requests,
                  \* request_time_preferences and appointments, by id
  serial,         \* the SERIAL sequences: the last id each table handed out
  proc,           \* per booking / admin handler invocation: where it is, its
                  \* arguments, what it read, and its transaction's uncommitted rows
  httpRes,        \* the last response of the booking / admin API, with what was asked
  pool            \* the pool's clients as pool.query finds them: per client, whether
                  \* a BEGIN is open on its session and that transaction's rows

loginVars == <<now, admin_users, authHits, login, loginRes, wrongSince>>

dbVars == <<db, serial, proc, httpRes, pool>>

vars ==
  <<now, admin_users, authHits, login, loginRes, wrongSince, db, serial, proc, httpRes, pool>>

\* What the booking and admin handlers leave alone when they use a client of their own.
authVars == <<now, admin_users, authHits, login, loginRes, wrongSince, pool>>

\* bcrypt: the stored hash of a password, and bcrypt.compare.
hashPassword(password) == <<"bcrypt", password>>

bcryptCompare(password, hash) == hash = hashPassword(password)

\* express-validator: body('email').isEmail(), body('password').isLength({min: 6})
isEmail(email) == email # "not-an-email"

passwordLongEnough(password) == password # "short"

loginValidation(email, password) == isEmail(email) /\ passwordLongEnough(password)

\* generateToken: the payload embeds id, email and role; expiry 24h or 30d.
generateToken(user, rememberMe, t) ==
  [id |-> user.id, email |-> user.email, role |-> user.role, sig |-> "signed",
   exp |-> t + (IF rememberMe THEN RememberDays * 24 * 60 ELSE TokenHours * 60)]

NoToken == [id |-> NULL, email |-> "", role |-> "", sig |-> "", exp |-> NULL]

\* SELECT ... FROM admin_users WHERE email = $1 AND is_active = true
userQuery(email) ==
  {i \in AccountIds : admin_users[i].email = email /\ admin_users[i].is_active}

accountLocked_Never(user, t) == FALSE

accountLocked_Forever(user, t) == user.locked_until # NULL

accountLocked_Reversed(user, t) == user.locked_until # NULL /\ t > user.locked_until

\* if (user.locked_until && new Date() < new Date(user.locked_until))
accountLocked(user, t) == user.locked_until # NULL /\ t < user.locked_until

\* Math.ceil((new Date(user.locked_until) - new Date()) / (1000 * 60)), the clock
\* counting whole minutes.
lockTimeRemaining(user, t) == user.locked_until - t

nextFailedAttempts_Restart(user) ==
  IF user.failed_login_attempts >= LockThreshold THEN 1
  ELSE user.failed_login_attempts + 1

\* const failedAttempts = (user.failed_login_attempts || 0) + 1
nextFailedAttempts(user) == user.failed_login_attempts + 1

lockUntilFor_OffByOne(failedAttempts, t) ==
  IF failedAttempts >= LockThreshold - 1 THEN t + LockMinutes ELSE NULL

\* if (failedAttempts >= 5) lockUntil = new Date(Date.now() + 30 * 60 * 1000)
lockUntilFor(failedAttempts, t) ==
  IF failedAttempts >= LockThreshold THEN t + LockMinutes ELSE NULL

\* express-rate-limit, fixed window per client: the hit count this request gets.
limiterHit(c, t) ==
  IF t >= authHits[c].resetTime
    THEN [hits |-> 1, resetTime |-> t + AuthWindowMinutes]
    ELSE [hits |-> IF authHits[c].hits > AuthLimitMax THEN authHits[c].hits
                   ELSE authHits[c].hits + 1,
          resetTime |-> authHits[c].resetTime]

\* authLimiter: max 5 per window; the request is stopped when its hit count exceeds max.
rateLimited(hit) == hit.hits > AuthLimitMax

\* A login response; minutes is the ${lockTimeRemaining} of the 423's message.
Response(status, code, message, token) ==
  [status |-> status, code |-> code, message |-> message, token |-> token,
   minutes |-> NULL]

NoResponse == Response(0, "", "", NoToken)

Idle == [pc |-> "idle", op |-> "login", email |-> "", password |-> "", rememberMe |-> FALSE,
         id |-> NULL, failed_login_attempts |-> 0, lockedAtArrival |-> FALSE,
         expiredAtArrival |-> FALSE]

\* What a finished login leaves in loginRes: the response and, as history, the
\* request and whether an active account of that email was locked when it arrived,
\* or carried a lock that had run out.
Finished(req, res) ==
  [res |-> res, op |-> req.op, email |-> req.email, password |-> req.password, id |-> req.id,
   lockedAtArrival |-> req.lockedAtArrival,
   expiredAtArrival |-> req.expiredAtArrival]

\* UPDATE admin_users SET failed_login_attempts = $1, locked_until = $2 WHERE id = $3
failedLoginUpdate(row, failedAttempts, lockUntil) ==
  [row EXCEPT !.failed_login_attempts = failedAttempts, !.locked_until = lockUntil]

successfulLoginUpdate_KeepsLock(row, t) ==
  [row EXCEPT !.failed_login_attempts = 0, !.last_login_at = t]

\* UPDATE admin_users SET failed_login_attempts = 0, locked_until = NULL,
\*   last_login_at = CURRENT_TIMESTAMP WHERE id = $1
successfulLoginUpdate(row, t) ==
  [row EXCEPT !.failed_login_attempts = 0, !.locked_until = NULL, !.last_login_at = t]

\* ------------------------------------------------------------ the database
Handlers == {"w1", "w2"}
NoText == "<null>"
TableNames == {"customers", "appointment_requests", "request_time_preferences",
               "appointments"}

\* Table services: read-only on the booking / approval path. Service 2 is inactive
\* and no service has id 3.
services ==
  (1 :> [id |-> 1, name |-> "Cut and finish", duration_minutes |-> 45,
         max_concurrent |-> 1, is_active |-> TRUE, deleted_at |-> NULL])
  @@ (2 :> [id |-> 2, name |-> "Perm", duration_minutes |-> 90,
            max_concurrent |-> 1, is_active |-> FALSE, deleted_at |-> NULL])

\* Column admin_notes: NULL, a text, or the text reschedule builds around the
\* suggested time.
NoNote == [kind |-> "null", time |-> NULL, text |-> ""]

Note(text) == [kind |-> "text", time |-> NULL, text |-> text]

\* admin_notes || null
NoteOrNull(text) == IF text = "" THEN NoNote ELSE Note(text)

NoRows == [t \in TableNames |-> <<>>]

\* The pool's clients (config/database.js allows up to 20).
Conns == {"k1", "k2"}

IdlePool == [k \in Conns |-> [inTx |-> FALSE, tx |-> NoRows]]

\* Rows g laid over rows f: g's rows replace or extend f's.
Merge(f, g) == [i \in DOMAIN f \cup DOMAIN g |-> IF i \in DOMAIN g THEN g[i] ELSE f[i]]

\* What a statement sees on a client inside a transaction: the committed rows
\* with the transaction's own uncommitted rows laid over them.
View(tx) == [t \in TableNames |-> Merge(db[t], tx[t])]

\* An INSERT or UPDATE of one row on a client inside a transaction.
Put(tx, table, id, row) == [tx EXCEPT ![table] = Merge(@, id :> row)]

\* await client.query('BEGIN'): a transaction with nothing written yet.
beginTransaction == NoRows

commitTransaction_KeepsNothing(tx) == db

\* client.query('COMMIT'): the transaction's rows become the committed rows.
commitTransaction(tx) == View(tx)

rollbackTransaction_Commits(tx) == View(tx)

\* client.query('ROLLBACK'): the committed rows stay as they were.
rollbackTransaction(tx) == db

NoCustomer == [name |-> "", email |-> "", phone |-> ""]

NoBody == [customer |-> NoCustomer, service_id |-> NULL, preferred_times |-> <<>>,
           notes |-> ""]

NoData == [appointment_id |-> NULL, request_id |-> NULL, scheduled_datetime |-> NULL,
           duration_minutes |-> NULL, status |-> "", preferred_times |-> <<>>,
           customer |-> NoCustomer, notes |-> NoText, count |-> NULL,
           service_name |-> ""]

NoRequestData == [id |-> NULL, customer_id |-> NULL, service_id |-> NULL, status |-> "",
                  duration_minutes |-> NULL]

IdleProc == [pc |-> "idle", op |-> "", id |-> NULL, preference_id |-> NULL,
             admin_notes |-> "", suggested_datetime |-> NULL,
             token |-> NoToken, tx |-> NoRows,
             requestData |-> NoRequestData, selectedTime |-> NULL,
             appointment_id |-> NULL, customer_id |-> NULL, next |-> 0,
             client |-> "null", connects |-> 0, releases |-> 0,
             tokenLive |-> FALSE, tokenActive |-> FALSE,
             role |-> "", roles |-> {},
             body |-> NoBody, dbBefore |-> NoRows]

\* client = await pool.connect(): the handler holds a client of the pool.
Connect(p) == [p EXCEPT !.client = "open", !.connects = @ + 1]

\* client.release(): the client goes back to the pool.
Release(p) == [p EXCEPT !.client = "released", !.releases = @ + 1]

\* What a finished handler leaves in httpRes: the response and, as history, the
\* operation, the request id, token and body it was called with, whether the handler
\* body ran, the status the request had in the committed rows when the call
\* arrived, whether the committed rows are still those, the ids of the rows
\* committed since, by table, and how many clients the handler took from the pool
\* and how many times it released one, and whether, when the call arrived, its
\* token was signed and unexpired and the token's account active, the role that
\* account had then, and the roles the route is restricted to.
Reply(p, status, error, data, ran) ==
  [op |-> p.op, status |-> status, error |-> error, data |-> data,
   id |-> p.id, preference_id |-> p.preference_id, token |-> p.token, ran |-> ran,
   body |-> p.body, connects |-> p.connects, releases |-> p.releases,
   tokenLive |-> p.tokenLive, tokenActive |-> p.tokenActive,
   role |-> p.role, roles |-> p.roles,
   statusBefore |-> IF p.id \in DOMAIN p.dbBefore.appointment_requests
                      THEN p.dbBefore.appointment_requests[p.id].status ELSE "",
   unchanged |-> TRUE, inserted |-> [t \in TableNames |-> {}]]

NoReply == Reply(IdleProc, 0, "", NoData, FALSE)

\* The rows a booking of customer 1 leaves: request 1 with preferences 1 (priority 1)
\* and 2 (priority 2), request 2 with preference 3, all pending, nothing selected.
BookedRows ==
  [customers |-> (1 :> [id |-> 1, name |-> "Ada", email |-> "ada@mail", phone |-> "0123456789"]),
   appointment_requests |->
     (1 :> [id |-> 1, customer_id |-> 1, service_id |-> 1, status |-> "pending",
            customer_notes |-> NoText, admin_notes |-> NoNote, deleted_at |-> NULL])
     @@ (2 :> [id |-> 2, customer_id |-> 1, service_id |-> 1, status |-> "pending",
               customer_notes |-> NoText, admin_notes |-> NoNote, deleted_at |-> NULL]),
   request_time_preferences |->
     (1 :> [id |-> 1, request_id |-> 1, preferred_datetime |-> 600, priority |-> 1,
            is_selected |-> FALSE])
     @@ (2 :> [id |-> 2, request_id |-> 1, preferred_datetime |-> 720, priority |-> 2,
               is_selected |-> FALSE])
     @@ (3 :> [id |-> 3, request_id |-> 2, preferred_datetime |-> 600, priority |-> 1,
               is_selected |-> FALSE]),
   appointments |-> <<>>]

AuthInit ==
  /\ now = 0
  /\ admin_users =
       [i \in AccountIds |->
          [id |-> i,
           email |-> IF i = 1 THEN "rhi@salon" ELSE "ex@salon",
           password_hash |-> hashPassword(RightPassword),
           role |-> IF i = 1 THEN "admin" ELSE "super_admin",
           is_active |-> (i = 1),
           failed_login_attempts |-> 0,
           locked_until |-> NULL,
           last_login_at |-> NULL]]
  /\ authHits = [c \in Clients |-> [hits |-> 0, resetTime |-> 0]]
  /\ login = [p \in LoginProcs |-> Idle]
  /\ loginRes = Finished(Idle, NoResponse)
  /\ wrongSince = [i \in AccountIds |-> 0]

\* No booking or admin request has been made: the tables are empty.
EmptyDbInit ==
  /\ db = NoRows
  /\ serial = [t \in TableNames |-> 0]
  /\ proc = [h \in Handlers |-> IdleProc]
  /\ httpRes = NoReply
  /\ pool = IdlePool

LoginInit == AuthInit /\ EmptyDbInit

\* The clock advances.
Tick ==
  /\ now + TickMinutes <= MaxTime
  /\ now' = now + TickMinutes
  /\ UNCHANGED <<admin_users, authHits, login, loginRes, wrongSince>>
  /\ UNCHANGED dbVars

\* POST /api/auth/login, up to the password comparison: authLimiter, validation,
\* the SELECT, the lock check and bcrypt.compare. Every early return answers here.
LoginRequest(p, c, email, password, rememberMe) ==
  /\ login[p].pc = "idle"
  /\ LET hit == limiterHit(c, now)
         rows == userQuery(email)
         req == [Idle EXCEPT !.email = email, !.password = password,
                             !.rememberMe = rememberMe,
                             !.id = IF rows = {} THEN NULL ELSE CHOOSE i \in rows : TRUE,
                             !.lockedAtArrival =
                                \E i \in rows : admin_users[i].locked_until # NULL
                                                /\ now < admin_users[i].locked_until,
                             !.expiredAtArrival =
                                \E i \in rows : admin_users[i].locked_until # NULL
                                                /\ now >= admin_users[i].locked_until]
     IN
     /\ authHits' = [authHits EXCEPT ![c] = hit]
     /\ IF rateLimited(hit) THEN
          /\ loginRes' = Finished(req, Response(429, "RATE_LIMIT_EXCEEDED",
                                    "Too many login attempts", NoToken))
          /\ UNCHANGED login
        ELSE IF ~loginValidation(email, password) THEN
          /\ loginRes' = Finished(req, Response(400, "", "Invalid input data", NoToken))
          /\ UNCHANGED login
        ELSE IF rows = {} THEN
          /\ loginRes' = Finished(req, Response(401, "INVALID_CREDENTIALS",
                                    "Invalid email or password", NoToken))
          /\ UNCHANGED login
        ELSE LET user == admin_users[CHOOSE i \in rows : TRUE] IN
          IF accountLocked(user, now) THEN
            /\ loginRes' = Finished(req,
                 [Response(423, "ACCOUNT_LOCKED", "Account is locked", NoToken)
                    EXCEPT !.minutes = lockTimeRemaining(user, now)])
            /\ UNCHANGED login
          ELSE
            /\ login' = [login EXCEPT ![p] =
                 [req EXCEPT !.pc = IF bcryptCompare(password, user.password_hash)
                                      THEN "success" ELSE "failed",
                             !.failed_login_attempts = user.failed_login_attempts]]
            /\ UNCHANGED loginRes
  /\ UNCHANGED <<now, admin_users, wrongSince>>
  /\ UNCHANGED dbVars

\* if (!isPasswordValid): the UPDATE of failed_login_attempts and locked_until from
\* the row read earlier, then 401.
LoginFailed(p) ==
  /\ login[p].pc = "failed"
  /\ LET failedAttempts == nextFailedAttempts(login[p])
         lockUntil == lockUntilFor(failedAttempts, now)
     IN
     /\ failedAttempts <= MaxAttempts
     /\ admin_users' = [admin_users EXCEPT ![login[p].id] =
                          failedLoginUpdate(@, failedAttempts, lockUntil)]
     /\ loginRes' = Finished(login[p],
                      Response(401, "INVALID_CREDENTIALS",
                        IF lockUntil # NULL
                          THEN "Too many failed attempts. Account locked for 30 minutes."
                          ELSE "Invalid email or password", NoToken))
     /\ wrongSince' = [wrongSince EXCEPT ![login[p].id] = @ + 1]
  /\ login' = [login EXCEPT ![p] = Idle]
  /\ UNCHANGED <<now, authHits>>
  /\ UNCHANGED dbVars

\* Successful login: reset failed attempts, clear the lock, stamp last login,
\* issue the token.
LoginSucceeded(p) ==
  /\ login[p].pc = "success"
  /\ admin_users' = [admin_users EXCEPT ![login[p].id] = successfulLoginUpdate(@, now)]
  /\ loginRes' = Finished(login[p],
                   Response(200, "", "Login successful",
                     generateToken(admin_users[login[p].id], login[p].rememberMe, now)))
  /\ wrongSince' = [wrongSince EXCEPT ![login[p].id] = 0]
  /\ login' = [login EXCEPT ![p] = Idle]
  /\ UNCHANGED <<now, authHits>>
  /\ UNCHANGED dbVars

\* Logins served one at a time: a request arrives when no other is in flight.
LoginRequestSerial(p, c, email, password, rememberMe) ==
  /\ \A q \in LoginProcs : login[q].pc = "idle"
  /\ LoginRequest(p, c, email, password, rememberMe)

LoginNext ==
  \/ Tick
  \/ \E p \in LoginProcs, c \in Clients, e \in Emails, pw \in Passwords, r \in BOOLEAN :
       LoginRequestSerial(p, c, e, pw, r)
  \/ \E p \in LoginProcs : LoginFailed(p)
  \/ \E p \in LoginProcs : LoginSucceeded(p)

LoginSpec == LoginInit /\ [][LoginNext]_vars

\* Logins of one account interleaving at their awaits (the inputs that never reach
\* the account's row are left to LoginSpec).
LoginConcNext ==
  \/ Tick
  \/ \E p \in LoginProcs, c \in Clients, pw \in {RightPassword, "wrong-pw"} :
       LoginRequest(p, c, "rhi@salon", pw, FALSE)
  \/ \E p \in LoginProcs : LoginFailed(p)
  \/ \E p \in LoginProcs : LoginSucceeded(p)

LoginConcSpec == LoginInit /\ [][LoginConcNext]_vars

\* ------------------------------------------------------------------ claims

\* The login answered last was for an active account that was locked when the
\* request arrived, and carried the right password.
RightPasswordWhileLocked ==
  loginRes.lockedAtArrival /\ loginRes.password = RightPassword

FifthFailureLocks ==
  \A i \in AccountIds :
    /\ (wrongSince[i] < LockThreshold => admin_users[i].locked_until = NULL)
    /\ (wrongSince[i] >= LockThreshold => admin_users[i].locked_until # NULL)

LockLastsThirtyMinutes ==
  \A i \in AccountIds :
    (wrongSince[i] = LockThreshold - 1 /\ wrongSince'[i] = LockThreshold)
      => admin_users'[i].locked_until = now + LockMinutes

\* C1 as stated: after exactly 5 consecutive failed logins from counter 0 the
\* account is locked (not before), the lock runs 30 minutes from the fifth failure,
\* and every login with the right password arriving while the lock runs is
\* answered ACCOUNT_LOCKED.
C1_AsStated ==
  /\ FifthFailureLocks
  /\ (RightPasswordWhileLocked => loginRes.res.code = "ACCOUNT_LOCKED")

\* C1 amended: as C1, but a right-password login arriving while the lock runs is
\* rejected either by the handler with ACCOUNT_LOCKED (423) or, when the client
\* has used up its 5 requests of the 15-minute window, by the limiter with
\* RATE_LIMIT_EXCEEDED (429); it never yields a token and never changes the account.
C1_LockedRejects ==
  /\ [][LockLastsThirtyMinutes]_vars
  /\ [](FifthFailureLocks
        /\ (RightPasswordWhileLocked =>
              /\ loginRes.res.code \in {"ACCOUNT_LOCKED", "RATE_LIMIT_EXCEEDED"}
              /\ loginRes.res.status \in {423, 429}
              /\ loginRes.res.token = NoToken))

C1_Witness ==
  /\ RightPasswordWhileLocked
  /\ loginRes.res.code = "ACCOUNT_LOCKED"
  /\ wrongSince[1] = LockThreshold
  /\ admin_users[1].failed_login_attempts = LockThreshold

\* C2: in the state right after a login that returned a token, the account's
\* failed-attempt counter is 0 and its lock-until is null.
C2_SuccessResets ==
  loginRes.res.status = 200 =>
    /\ loginRes.res.token # NoToken
    /\ admin_users[loginRes.id].failed_login_attempts = 0
    /\ admin_users[loginRes.id].locked_until = NULL

\* A token was returned to a login that found the counter at 5 and an expired lock.
C2_Witness ==
  /\ loginRes.res.status = 200
  /\ loginRes.res.token # NoToken
  /\ now >= LockMinutes
  /\ admin_users[loginRes.id].last_login_at = now

\* C3: lock-until is null unless the failed-attempt counter has reached the
\* lockout threshold of 5, whatever logins ran and however they interleaved.
C3_LockOnlyAtThreshold ==
  \A i \in AccountIds :
    admin_users[i].locked_until # NULL =>
      admin_users[i].failed_login_attempts >= LockThreshold

C3_Witness ==
  \E i \in AccountIds :
    /\ admin_users[i].locked_until # NULL
    /\ admin_users[i].failed_login_attempts > LockThreshold
    /\ \E p \in LoginProcs : login[p].pc = "success"

\* --------------------------------------------- admin operations, part_001
\* The router of part_001 registers its handlers with no middleware before them.
AdminIds == {"1", "2", "9", "x"}
PreferenceIds == {0, 1, 2, 3}
AdminNotes == {"", "see you then"}
RescheduleNotes == {""}
CancelNotes == {""}
SuggestedTimes == {NULL, 600}

\* /^\d+$/.test(id)
validId(raw) == raw \in {"1", "2", "9"}

\* The integer PostgreSQL compares the id parameter as.
ParseId(raw) == CASE raw = "1" -> 1 [] raw = "2" -> 2 [] raw = "9" -> 9 [] OTHER -> NULL

\* Joi: preference_id: number().integer().positive().required()
approvalSchema(preference_id, admin_notes) == preference_id > 0

\* Joi: suggested_datetime: date().min('now').required()
rescheduleSchema(suggested_datetime, admin_notes, t) ==
  suggested_datetime # NULL /\ suggested_datetime >= t

\* jsonwebtoken: jwt.verify(token, process.env.JWT_SECRET)
jwtVerify(token, t) ==
  IF token.sig # "signed" THEN "JsonWebTokenError"
  ELSE IF t >= token.exp THEN "TokenExpiredError"
  ELSE "ok"

NoUser == [id |-> NULL, email |-> "", role |-> ""]

Verdict(status, code, user) == [status |-> status, code |-> code, user |-> user]

authenticateToken_NoRecheck(token, t) ==
  IF token = NoToken THEN Verdict(401, "TOKEN_REQUIRED", NoUser)
  ELSE IF jwtVerify(token, t) = "JsonWebTokenError"
    THEN Verdict(401, "INVALID_TOKEN", NoUser)
  ELSE IF jwtVerify(token, t) = "TokenExpiredError"
    THEN Verdict(401, "TOKEN_EXPIRED", NoUser)
  ELSE Verdict(200, "", [id |-> token.id, email |-> token.email, role |-> token.role])

authenticateToken_TokenRole(token, t) ==
  IF token = NoToken THEN Verdict(401, "TOKEN_REQUIRED", NoUser)
  ELSE IF jwtVerify(token, t) = "JsonWebTokenError"
    THEN Verdict(401, "INVALID_TOKEN", NoUser)
  ELSE IF jwtVerify(token, t) = "TokenExpiredError"
    THEN Verdict(401, "TOKEN_EXPIRED", NoUser)
  ELSE LET rows == {i \in AccountIds : admin_users[i].id = token.id
                                        /\ admin_users[i].is_active} IN
    IF rows = {} THEN Verdict(401, "USER_NOT_FOUND", NoUser)
    ELSE LET row == admin_users[CHOOSE i \in rows : TRUE] IN
      Verdict(200, "", [id |-> row.id, email |-> row.email, role |-> token.role])

\* authenticateToken: the bearer token is verified and the account re-read.
authenticateToken(token, t) ==
  IF token = NoToken THEN Verdict(401, "TOKEN_REQUIRED", NoUser)
  ELSE IF jwtVerify(token, t) = "JsonWebTokenError"
    THEN Verdict(401, "INVALID_TOKEN", NoUser)
  ELSE IF jwtVerify(token, t) = "TokenExpiredError"
    THEN Verdict(401, "TOKEN_EXPIRED", NoUser)
  ELSE LET rows == {i \in AccountIds : admin_users[i].id = token.id
                                        /\ admin_users[i].is_active} IN
    IF rows = {} THEN Verdict(401, "USER_NOT_FOUND", NoUser)
    ELSE LET row == admin_users[CHOOSE i \in rows : TRUE] IN
      Verdict(200, "", [id |-> row.id, email |-> row.email, role |-> row.role])

requireRole_AnyRole(roles, user) ==
  IF user = NoUser THEN Verdict(401, "AUTH_REQUIRED", user)
  ELSE Verdict(200, "", user)

\* requireRole(requiredRoles), after authenticateToken has set req.user.
requireRole(roles, user) ==
  IF user = NoUser THEN Verdict(401, "AUTH_REQUIRED", user)
  ELSE IF user.role \notin roles THEN Verdict(403, "INSUFFICIENT_PERMISSIONS", user)
  ELSE Verdict(200, "", user)

\* protectAdminRoute(): authenticateToken, then requireRole(['admin', 'super_admin']).
protectAdminRoute(token, t) ==
  LET a == authenticateToken(token, t) IN
    IF a.status # 200 THEN a ELSE requireRole({"admin", "super_admin"}, a.user)

\* The Authorization headers a caller may send: none, a token of the active admin,
\* one of the deactivated account, an expired one, and one signed with another key.
AdminTokens ==
  {NoToken,
   generateToken(admin_users[1], FALSE, 0),
   generateToken(admin_users[2], FALSE, 0),
   [generateToken(admin_users[1], FALSE, 0) EXCEPT !.exp = 0],
   [generateToken(admin_users[1], FALSE, 0) EXCEPT !.sig = "other key"]}

\* Requests are served one at a time: one arrives when no handler is in flight.
Arrives(h) == \A g \in Handlers : proc[g].pc = "idle"

Call(op, raw, token) ==
  [IdleProc EXCEPT !.op = op, !.id = ParseId(raw), !.token = token, !.dbBefore = db,
                   !.tokenLive = (jwtVerify(token, now) = "ok"),
                   !.tokenActive = (token.id \in AccountIds
                                    /\ admin_users[token.id].is_active),
                   !.role = IF token.id \in AccountIds
                              THEN admin_users[token.id].role ELSE ""]

\* The handler sends its response and ends.
Answer(h, p, status, error, data, ran) ==
  /\ httpRes' = [Reply(p, status, error, data, ran) EXCEPT
        !.unchanged = (db' = p.dbBefore),
        !.inserted = [t \in TableNames |-> DOMAIN db'[t] \ DOMAIN p.dbBefore[t]]]
  /\ proc' = [proc EXCEPT ![h] = IdleProc]

\* The handler goes on to its next await.
Goto(h, p, pc) == proc' = [proc EXCEPT ![h] = [p EXCEPT !.pc = pc]]

\* A call passes its checks and is in flight; httpRes holds the response sent
\* since the last call was taken up.
Enter(h, p, pc) == Goto(h, p, pc) /\ httpRes' = NoReply

\* SELECT ... FROM appointment_requests ar JOIN customers c ... JOIN services s ...
\* WHERE ar.id = $1 AND ar.deleted_at IS NULL, on the rows v.
requestQuery(v, id) ==
  {r \in DOMAIN v.appointment_requests :
     /\ r = id
     /\ v.appointment_requests[r].deleted_at = NULL
     /\ v.appointment_requests[r].customer_id \in DOMAIN v.customers
     /\ v.appointment_requests[r].service_id \in DOMAIN services}

requestRow(v, id) ==
  [id |-> id,
   customer_id |-> v.appointment_requests[id].customer_id,
   service_id |-> v.appointment_requests[id].service_id,
   status |-> v.appointment_requests[id].status,
   duration_minutes |-> services[v.appointment_requests[id].service_id].duration_minutes]

\* SELECT id FROM appointments WHERE scheduled_datetime = $1
\* AND status IN ('scheduled', 'in_progress') AND deleted_at IS NULL
conflictCheck(v, datetime) ==
  {a \in DOMAIN v.appointments :
     /\ v.appointments[a].scheduled_datetime = datetime
     /\ v.appointments[a].status \in {"scheduled", "in_progress"}
     /\ v.appointments[a].deleted_at = NULL}

preferenceQuery_FreeSlot(v, preference_id, id) ==
  {q \in DOMAIN v.request_time_preferences :
     /\ q = preference_id /\ v.request_time_preferences[q].request_id = id
     /\ conflictCheck(v, v.request_time_preferences[q].preferred_datetime) = {}}

\* SELECT preferred_datetime, priority FROM request_time_preferences
\* WHERE id = $1 AND request_id = $2
preferenceQuery(v, preference_id, id) ==
  {q \in DOMAIN v.request_time_preferences :
     q = preference_id /\ v.request_time_preferences[q].request_id = id}

\* The preferences of request id among the rows.
PreferencesOf(rows, id) ==
  {q \in DOMAIN rows.request_time_preferences :
     rows.request_time_preferences[q].request_id = id}

\* PUT /requests/:id/approve: validation of the body and of the id.
ApproveCall(h, raw, preference_id, admin_notes, token) ==
  /\ proc[h].pc = "idle"
  /\ UNCHANGED <<db, serial>>
  /\ LET p == [Call("approve", raw, token) EXCEPT !.preference_id = preference_id,
                                                    !.admin_notes = admin_notes] IN
     IF ~approvalSchema(preference_id, admin_notes)
       THEN Answer(h, p, 400, "Validation failed", NoData, FALSE)
     ELSE IF ~validId(raw)
       THEN Answer(h, p, 400, "Invalid request ID", NoData, FALSE)
     ELSE Enter(h, p, "begin")
  /\ UNCHANGED authVars

\* An approve served while no other request is in flight.
ApproveRequest(h, raw, preference_id, admin_notes, token) ==
  /\ Arrives(h)
  /\ ApproveCall(h, raw, preference_id, admin_notes, token)

\* A row written inside a transaction stays locked until that transaction ends:
\* an UPDATE of one of the rows ids on another handler's client waits.
Waits(h, table, ids) ==
  \E g \in Handlers \ {h} : ids \cap DOMAIN proc[g].tx[table] # {}

\* client = await beginTransaction()
ApproveBegin(h) ==
  /\ proc[h].op = "approve" /\ proc[h].pc = "begin"
  /\ Goto(h, Connect([proc[h] EXCEPT !.tx = beginTransaction]), "select")
  /\ UNCHANGED <<db, serial, httpRes>>
  /\ UNCHANGED authVars

\* The request, the pending check, the chosen preference and the conflict check
\* (whose result is not used).
ApproveSelect(h) ==
  /\ proc[h].op = "approve" /\ proc[h].pc = "select"
  /\ LET p == proc[h]
         v == View(p.tx)
     IN
     IF requestQuery(v, p.id) = {} THEN
       /\ db' = rollbackTransaction(p.tx)
       /\ Answer(h, Release(p), 404, "Request not found", NoData, TRUE)
     ELSE IF requestRow(v, p.id).status # "pending" THEN
       /\ db' = rollbackTransaction(p.tx)
       /\ Answer(h, Release(p), 400, "Request is already " \o requestRow(v, p.id).status,
                          NoData, TRUE)
     ELSE IF preferenceQuery(v, p.preference_id, p.id) = {} THEN
       /\ db' = rollbackTransaction(p.tx)
       /\ Answer(h, Release(p), 400, "Invalid time preference selected", NoData, TRUE)
     ELSE
       /\ Goto(h, [p EXCEPT !.requestData = requestRow(v, p.id),
                            !.selectedTime =
                               v.request_time_preferences[p.preference_id].preferred_datetime],
               "markSelected")
       /\ UNCHANGED <<db, httpRes>>
  /\ UNCHANGED serial
  /\ UNCHANGED authVars

\* UPDATE request_time_preferences SET is_selected = true WHERE id = $1
markSelected(tx, preference_id) ==
  LET v == View(tx) IN
    IF preference_id \in DOMAIN v.request_time_preferences
      THEN Put(tx, "request_time_preferences", preference_id,
               [v.request_time_preferences[preference_id] EXCEPT !.is_selected = TRUE])
      ELSE tx

\* UPDATE request_time_preferences SET is_selected = false
\* WHERE request_id = $1 AND id != $2
markOthers(tx, id, preference_id) ==
  LET v == View(tx)
      others == {q \in DOMAIN v.request_time_preferences :
                   v.request_time_preferences[q].request_id = id /\ q # preference_id}
  IN [tx EXCEPT !["request_time_preferences"] =
        Merge(@, [q \in others |->
                    [v.request_time_preferences[q] EXCEPT !.is_selected = FALSE]])]

confirmRequest_NotesOnly(tx, id, admin_notes) ==
  LET v == View(tx) IN
    Put(tx, "appointment_requests", id,
        [v.appointment_requests[id] EXCEPT !.admin_notes = NoteOrNull(admin_notes)])

\* UPDATE appointment_requests SET status = 'confirmed', admin_notes = $2 WHERE id = $1
confirmRequest(tx, id, admin_notes) ==
  LET v == View(tx) IN
    Put(tx, "appointment_requests", id,
        [v.appointment_requests[id] EXCEPT !.status = "confirmed",
                                           !.admin_notes = NoteOrNull(admin_notes)])

\* INSERT INTO appointments (...) VALUES ($1, ..., $6, 'scheduled')
insertAppointment(tx, newId, p) ==
  Put(tx, "appointments", newId,
      [id |-> newId, request_id |-> p.id, preference_id |-> p.preference_id,
       customer_id |-> p.requestData.customer_id,
       service_id |-> p.requestData.service_id,
       scheduled_datetime |-> p.selectedTime,
       duration_minutes |-> p.requestData.duration_minutes,
       status |-> "scheduled", deleted_at |-> NULL])

ApproveMarkSelected(h) ==
  /\ proc[h].op = "approve" /\ proc[h].pc = "markSelected"
  /\ ~Waits(h, "request_time_preferences", {proc[h].preference_id})
  /\ Goto(h, [proc[h] EXCEPT !.tx = markSelected(@, proc[h].preference_id)], "markOthers")
  /\ UNCHANGED <<db, serial, httpRes>>
  /\ UNCHANGED authVars

ApproveMarkOthers(h) ==
  /\ proc[h].op = "approve" /\ proc[h].pc = "markOthers"
  /\ ~Waits(h, "request_time_preferences",
            PreferencesOf(View(proc[h].tx), proc[h].id) \ {proc[h].preference_id})
  /\ Goto(h, [proc[h] EXCEPT !.tx = markOthers(@, proc[h].id, proc[h].preference_id)],
          "confirm")
  /\ UNCHANGED <<db, serial, httpRes>>
  /\ UNCHANGED authVars

ApproveConfirm(h) ==
  /\ proc[h].op = "approve" /\ proc[h].pc = "confirm"
  /\ ~Waits(h, "appointment_requests", {proc[h].id})
  /\ Goto(h, [proc[h] EXCEPT !.tx = confirmRequest(@, proc[h].id, proc[h].admin_notes)],
          "insert")
  /\ UNCHANGED <<db, serial, httpRes>>
  /\ UNCHANGED authVars

ApproveInsert(h) ==
  /\ proc[h].op = "approve" /\ proc[h].pc = "insert"
  /\ serial.appointments < MaxRows
  /\ serial' = [serial EXCEPT !.appointments = @ + 1]
  /\ Goto(h, [proc[h] EXCEPT !.tx = insertAppointment(@, serial'.appointments, proc[h])],
          "commit")
  /\ UNCHANGED <<db, httpRes>>
  /\ UNCHANGED authVars

\* await commitTransaction(client), then the 200 with the appointment summary.
ApproveCommit(h) ==
  /\ proc[h].op = "approve" /\ proc[h].pc = "commit"
  /\ db' = commitTransaction(proc[h].tx)
  /\ LET p == proc[h]
         new == CHOOSE a \in DOMAIN p.tx.appointments : TRUE
     IN Answer(h, Release(p), 200, "",
                  [NoData EXCEPT !.appointment_id = new, !.request_id = p.id,
                                 !.scheduled_datetime = p.tx.appointments[new].scheduled_datetime,
                                 !.duration_minutes = p.requestData.duration_minutes,
                                 !.status = "scheduled"], TRUE)
  /\ UNCHANGED serial
  /\ UNCHANGED authVars

\* A query of the transaction rejects: the catch block rolls back and answers 500.
ApproveThrows(h) ==
  /\ proc[h].op = "approve"
  /\ proc[h].pc \in {"select", "markSelected", "markOthers", "confirm", "insert", "commit"}
  /\ db' = rollbackTransaction(proc[h].tx)
  /\ Answer(h, Release(proc[h]), 500, "Failed to approve request", NoData, TRUE)
  /\ UNCHANGED serial
  /\ UNCHANGED authVars

\* beginTransaction rejects: pool.connect() did (connected = FALSE), or BEGIN did
\* on the client pool.connect() had handed out. The handler's client is still
\* null, so the catch block skips the rollback and answers 500.
ApproveBeginThrows(h, connected) ==
  /\ proc[h].op = "approve" /\ proc[h].pc = "begin"
  /\ UNCHANGED <<db, serial>>
  /\ Answer(h, [proc[h] EXCEPT !.connects = IF connected THEN 1 ELSE 0],
            500, "Failed to approve request", NoData, TRUE)
  /\ UNCHANGED authVars

\* PUT /requests/:id/reschedule: validation, then the SELECT and its checks.
RescheduleRequest(h, raw, suggested_datetime, admin_notes, token) ==
  /\ proc[h].pc = "idle"
  /\ Arrives(h)
  /\ UNCHANGED <<db, serial>>
  /\ LET p == [Call("reschedule", raw, token) EXCEPT
                 !.suggested_datetime = suggested_datetime, !.admin_notes = admin_notes] IN
     IF ~rescheduleSchema(suggested_datetime, admin_notes, now)
       THEN Answer(h, p, 400, "Validation failed", NoData, FALSE)
     ELSE IF ~validId(raw)
       THEN Answer(h, p, 400, "Invalid request ID", NoData, FALSE)
     ELSE IF requestQuery(db, p.id) = {}
       THEN Answer(h, p, 404, "Request not found", NoData, TRUE)
     ELSE IF requestRow(db, p.id).status # "pending"
       THEN Answer(h, p, 400, "Request is already " \o requestRow(db, p.id).status,
                            NoData, TRUE)
     ELSE Enter(h, p, "update")
  /\ UNCHANGED authVars

\* UPDATE appointment_requests SET admin_notes = $2 WHERE id = $1 RETURNING ...
rescheduleUpdate(row, suggested_datetime, admin_notes) ==
  [row EXCEPT !.admin_notes = [kind |-> "reschedule", time |-> suggested_datetime,
                               text |-> admin_notes]]

RescheduleUpdate(h) ==
  /\ proc[h].op = "reschedule" /\ proc[h].pc = "update"
  /\ LET p == proc[h] IN
     /\ db' = [db EXCEPT !.appointment_requests[p.id] =
                 rescheduleUpdate(@, p.suggested_datetime, p.admin_notes)]
     /\ Answer(h, p, 200, "", [NoData EXCEPT !.request_id = p.id], TRUE)
  /\ UNCHANGED serial
  /\ UNCHANGED authVars

\* DELETE /requests/:id: the id check and the SELECT.
CancelRequest(h, raw, admin_notes, token) ==
  /\ proc[h].pc = "idle"
  /\ Arrives(h)
  /\ UNCHANGED <<db, serial>>
  /\ LET p == [Call("cancel", raw, token) EXCEPT !.admin_notes = admin_notes] IN
     IF ~validId(raw)
       THEN Answer(h, p, 400, "Invalid request ID", NoData, FALSE)
     ELSE IF requestQuery(db, p.id) = {}
       THEN Answer(h, p, 404, "Request not found", NoData, TRUE)
     ELSE Enter(h, p, "update")
  /\ UNCHANGED authVars

\* UPDATE appointment_requests SET status = 'cancelled', admin_notes = $2 WHERE id = $1
cancelUpdate(row, admin_notes) ==
  [row EXCEPT !.status = "cancelled",
              !.admin_notes = IF admin_notes = "" THEN Note("Request cancelled by admin")
                              ELSE Note(admin_notes)]

CancelUpdate(h) ==
  /\ proc[h].op = "cancel" /\ proc[h].pc = "update"
  /\ LET p == proc[h] IN
     /\ db' = [db EXCEPT !.appointment_requests[p.id] = cancelUpdate(@, p.admin_notes)]
     /\ Answer(h, p, 200, "", [NoData EXCEPT !.request_id = p.id,
                                                    !.status = "cancelled"], TRUE)
  /\ UNCHANGED serial
  /\ UNCHANGED authVars

ListStatuses == {"pending", "all", "rescheduled"}

\* GET /requests: the requests of one status (default pending) and their count.
ListRequests(h, status, token) ==
  /\ proc[h].pc = "idle"
  /\ Arrives(h)
  /\ UNCHANGED <<db, serial>>
  /\ LET p == Call("list", "x", token) IN
     IF status \notin {"pending", "confirmed", "superseded", "cancelled", "all"}
       THEN Answer(h, p, 400, "Invalid status", NoData, FALSE)
     ELSE Answer(h, p, 200, "",
            [NoData EXCEPT !.count =
               Cardinality({r \in DOMAIN db.appointment_requests :
                  /\ db.appointment_requests[r].deleted_at = NULL
                  /\ (status = "all" \/ db.appointment_requests[r].status = status)})],
            TRUE)
  /\ UNCHANGED authVars

\* GET /dashboard: the number of pending requests.
Dashboard(h, token) ==
  /\ proc[h].pc = "idle"
  /\ Arrives(h)
  /\ UNCHANGED <<db, serial>>
  /\ Answer(h, Call("dashboard", "x", token), 200, "",
            [NoData EXCEPT !.count =
               Cardinality({r \in DOMAIN db.appointment_requests :
                  /\ db.appointment_requests[r].deleted_at = NULL
                  /\ db.appointment_requests[r].status = "pending"})], TRUE)
  /\ UNCHANGED authVars

\* The serial runs use one handler and two of the headers.
SerialHandlers == {"w1"}
SerialTokens == {NoToken, generateToken(admin_users[1], FALSE, 0)}

\* Two booked requests wait for the admin.
AdminInit ==
  /\ AuthInit
  /\ db = BookedRows
  /\ serial = [t \in TableNames |-> Cardinality(DOMAIN BookedRows[t])]
  /\ proc = [h \in Handlers |-> IdleProc]
  /\ httpRes = NoReply
  /\ pool = IdlePool

AdminNext ==
  \/ \E h \in SerialHandlers, raw \in AdminIds, q \in PreferenceIds, n \in AdminNotes,
        t \in SerialTokens : ApproveRequest(h, raw, q, n, t)
  \/ \E h \in SerialHandlers : ApproveBegin(h)
  \/ \E h \in SerialHandlers : ApproveSelect(h)
  \/ \E h \in SerialHandlers : ApproveMarkSelected(h)
  \/ \E h \in SerialHandlers : ApproveMarkOthers(h)
  \/ \E h \in SerialHandlers : ApproveConfirm(h)
  \/ \E h \in SerialHandlers : ApproveInsert(h)
  \/ \E h \in SerialHandlers : ApproveCommit(h)
  \/ \E h \in SerialHandlers : ApproveThrows(h)
  \/ \E h \in SerialHandlers, connected \in BOOLEAN : ApproveBeginThrows(h, connected)
  \/ \E h \in SerialHandlers, raw \in AdminIds, d \in SuggestedTimes, n \in RescheduleNotes,
        t \in SerialTokens : RescheduleRequest(h, raw, d, n, t)
  \/ \E h \in SerialHandlers : RescheduleUpdate(h)
  \/ \E h \in SerialHandlers, raw \in AdminIds, n \in CancelNotes, t \in SerialTokens :
       CancelRequest(h, raw, n, t)
  \/ \E h \in SerialHandlers : CancelUpdate(h)
  \/ \E h \in SerialHandlers, st \in ListStatuses, t \in SerialTokens : ListRequests(h, st, t)
  \/ \E h \in SerialHandlers, t \in SerialTokens : Dashboard(h, t)

AdminSpec == AdminInit /\ [][AdminNext]_vars

\* ------------------------------------------------ claims on the admin router
SelectedOf(rows, id) ==
  {q \in PreferencesOf(rows, id) : rows.request_time_preferences[q].is_selected}

AppointmentsOf(rows, id) ==
  {a \in DOMAIN rows.appointments : rows.appointments[a].request_id = id}

Approved == httpRes.op = "approve" /\ httpRes.status = 200

\* C5: when approve has answered 200, the selected preferences of the request are
\* exactly the chosen one, the request is confirmed, and the call has added exactly
\* one appointment, which is the request's only one and is scheduled at the chosen
\* preference's time for the service's duration.
C5_ApproveOutcome ==
  Approved =>
    /\ SelectedOf(db, httpRes.id) = {httpRes.preference_id}
    /\ db.appointment_requests[httpRes.id].status = "confirmed"
    /\ Cardinality(httpRes.inserted.appointments) = 1
    /\ AppointmentsOf(db, httpRes.id) = httpRes.inserted.appointments
    /\ httpRes.inserted.appointments = {httpRes.data.appointment_id}
    /\ \A a \in httpRes.inserted.appointments :
         /\ db.appointments[a].preference_id = httpRes.preference_id
         /\ db.appointments[a].status = "scheduled"
         /\ db.appointments[a].scheduled_datetime =
              db.request_time_preferences[httpRes.preference_id].preferred_datetime
         /\ db.appointments[a].duration_minutes =
              services[db.appointment_requests[httpRes.id].service_id].duration_minutes

\* Request 1 has been approved with its second preference, and has a sibling.
C5_Witness ==
  /\ Approved
  /\ httpRes.id = 1 /\ httpRes.preference_id = 2
  /\ PreferencesOf(db, 1) = {1, 2}
  /\ db.appointment_requests[1].status = "confirmed"

\* C7 as stated: no step changes the status of a request that is confirmed,
\* cancelled or rescheduled.
C7_FinalStatusStays ==
  [][\A r \in DOMAIN db.appointment_requests :
       db.appointment_requests[r].status # "pending"
         => db'.appointment_requests[r].status = db.appointment_requests[r].status]_vars

\* C8 as stated: a handler body has run only for a caller whose bearer token
\* passes authenticateToken and requireRole(['admin', 'super_admin']).
C8_OnlyForAdmins ==
  httpRes.ran => protectAdminRoute(httpRes.token, now).status = 200

\* ------------------------ the protected admin router, src/routes/auth.js
\* Every route of this router runs protectAdminRoute() first, and every
\* statement, BEGIN, COMMIT and ROLLBACK included, goes through pool.query.
ProtectedIds == {"1", "9"}
PreferredTimeIds == {1, 3}
Reasons == {""}
SuggestedTime == 600

\* pool.query(text, params) runs the statement on a client the pool has idle.
\* Which client that is depends on the other queries in flight, which are not
\* enumerated here: any client k may be the one.
Visible(k) == IF pool[k].inTx THEN View(pool[k].tx) ELSE db

\* A row written by an open transaction stays locked until that transaction ends;
\* an UPDATE of it on another client waits.
Locked(k, table, id) ==
  \E j \in Conns \ {k} : pool[j].inTx /\ id \in DOMAIN pool[j].tx[table]

\* An INSERT or UPDATE of one row on client k: inside the transaction open on k,
\* or committed at once when none is open.
Write(k, table, id, row) ==
  IF pool[k].inTx
    THEN pool' = [pool EXCEPT ![k].tx = Put(@, table, id, row)] /\ db' = db
    ELSE db' = [db EXCEPT ![table] = Merge(@, id :> row)] /\ pool' = pool

\* The middleware in front of a route: its verdict on the Authorization header.
ProtectedCall(op, raw, token) ==
  [Call(op, raw, token) EXCEPT !.roles = {"admin", "super_admin"}]

\* PUT /requests/:id/approve behind protectAdminRoute().
ProtectedApproveRequest(h, raw, preferredTimeId, adminNotes, token) ==
  /\ proc[h].pc = "idle"
  /\ Arrives(h)
  /\ UNCHANGED <<db, serial, pool>>
  /\ LET p == [ProtectedCall("approve", raw, token) EXCEPT
                 !.preference_id = preferredTimeId, !.admin_notes = adminNotes]
         a == protectAdminRoute(token, now)
     IN IF a.status # 200 THEN Answer(h, p, a.status, a.code, NoData, FALSE)
        ELSE Enter(h, p, "begin")
  /\ UNCHANGED loginVars

\* await pool.query('BEGIN')
PoolBegin(h, k) ==
  /\ proc[h].op = "approve" /\ proc[h].pc = "begin"
  /\ pool' = [pool EXCEPT ![k].inTx = TRUE]
  /\ Goto(h, proc[h], "query")
  /\ UNCHANGED <<db, serial, httpRes>>
  /\ UNCHANGED loginVars

requestAndTime_AnyTime(v, id, preferredTimeId) ==
  {r \in DOMAIN v.appointment_requests :
     r = id /\ preferredTimeId \in DOMAIN v.request_time_preferences}

\* SELECT ar.*, rtp.preferred_time FROM appointment_requests ar
\* LEFT JOIN request_time_preferences rtp ON ar.id = rtp.request_id
\* WHERE ar.id = $1 AND rtp.id = $2
requestAndTime(v, id, preferredTimeId) ==
  {r \in DOMAIN v.appointment_requests :
     /\ r = id
     /\ preferredTimeId \in DOMAIN v.request_time_preferences
     /\ v.request_time_preferences[preferredTimeId].request_id = r}

notPending_Never(request) == FALSE

\* request.status !== 'pending'
notPending(request) == request.status # "pending"

PoolSelect(h, k) ==
  /\ proc[h].op = "approve" /\ proc[h].pc = "query"
  /\ LET p == proc[h]
         v == Visible(k)
     IN IF requestAndTime(v, p.id, p.preference_id) = {} THEN Goto(h, p, "notFound")
        ELSE IF notPending(v.appointment_requests[p.id])
          THEN Goto(h, p, "notPending")
        ELSE Goto(h, [p EXCEPT
               !.requestData = [NoRequestData EXCEPT
                  !.id = p.id,
                  !.customer_id = v.appointment_requests[p.id].customer_id,
                  !.service_id = v.appointment_requests[p.id].service_id,
                  !.status = v.appointment_requests[p.id].status],
               !.selectedTime = v.request_time_preferences[p.preference_id].preferred_datetime],
               "insert")
  /\ UNCHANGED <<db, serial, httpRes, pool>>
  /\ UNCHANGED loginVars

\* INSERT INTO appointments (customer_id, service_id, scheduled_time, status, notes,
\* created_by, created_at) ... RETURNING id; the columns it does not name are NULL.
protectedAppointment(newId, p) ==
  [id |-> newId, request_id |-> NULL, preference_id |-> NULL,
   customer_id |-> p.requestData.customer_id,
   service_id |-> p.requestData.service_id,
   scheduled_datetime |-> p.selectedTime,
   duration_minutes |-> NULL,
   status |-> "scheduled", deleted_at |-> NULL]

PoolInsert(h, k) ==
  /\ proc[h].op = "approve" /\ proc[h].pc = "insert"
  /\ serial.appointments < MaxRows
  /\ serial' = [serial EXCEPT !.appointments = @ + 1]
  /\ Write(k, "appointments", serial'.appointments,
           protectedAppointment(serial'.appointments, proc[h]))
  /\ Goto(h, [proc[h] EXCEPT !.appointment_id = serial'.appointments], "update")
  /\ UNCHANGED httpRes
  /\ UNCHANGED loginVars

\* adminNotes || `Approved by ${req.user.fullName}`
approvalNote(adminNotes) == IF adminNotes = "" THEN Note("Approved by admin") ELSE Note(adminNotes)

\* UPDATE appointment_requests SET status = 'confirmed', admin_notes = $1 WHERE id = $2
PoolUpdate(h, k) ==
  /\ proc[h].op = "approve" /\ proc[h].pc = "update"
  /\ ~Locked(k, "appointment_requests", proc[h].id)
  /\ IF proc[h].id \in DOMAIN Visible(k).appointment_requests
       THEN Write(k, "appointment_requests", proc[h].id,
                  [Visible(k).appointment_requests[proc[h].id] EXCEPT
                     !.status = "confirmed",
                     !.admin_notes = approvalNote(proc[h].admin_notes)])
       ELSE UNCHANGED <<db, pool>>
  /\ Goto(h, proc[h], "commit")
  /\ UNCHANGED <<serial, httpRes>>
  /\ UNCHANGED loginVars

\* COMMIT on client k ends the transaction open there, if any.
poolCommit(k) ==
  /\ db' = IF pool[k].inTx THEN commitTransaction(pool[k].tx) ELSE db
  /\ pool' = [pool EXCEPT ![k] = [inTx |-> FALSE, tx |-> NoRows]]

\* ROLLBACK on client k drops the transaction open there, if any.
poolRollback(k) ==
  /\ db' = IF pool[k].inTx THEN rollbackTransaction(pool[k].tx) ELSE db
  /\ pool' = [pool EXCEPT ![k] = [inTx |-> FALSE, tx |-> NoRows]]

\* await pool.query('COMMIT'), then the 200.
PoolCommit(h, k) ==
  /\ proc[h].op = "approve" /\ proc[h].pc = "commit"
  /\ poolCommit(k)
  /\ Answer(h, proc[h], 200, "",
            [NoData EXCEPT !.appointment_id = proc[h].appointment_id], TRUE)
  /\ UNCHANGED serial
  /\ UNCHANGED loginVars

\* pool.query rejects (the pool's connectionTimeoutMillis passes with no client
\* free) before its statement runs: the handler goes to its catch block.
PoolThrows(h) ==
  /\ proc[h].op = "approve"
  /\ proc[h].pc \in {"begin", "query", "insert", "update", "commit"}
  /\ Goto(h, proc[h], "catch")
  /\ UNCHANGED <<db, serial, httpRes, pool>>
  /\ UNCHANGED loginVars

\* await pool.query('ROLLBACK') of the two early returns and of the catch block,
\* then the 404, the 400 or the 500.
PoolRollback(h, k) ==
  /\ proc[h].op = "approve"
  /\ proc[h].pc \in {"notFound", "notPending", "catch"}
  /\ poolRollback(k)
  /\ IF proc[h].pc = "notFound"
       THEN Answer(h, proc[h], 404, "Request or preferred time not found", NoData, TRUE)
     ELSE IF proc[h].pc = "notPending"
       THEN Answer(h, proc[h], 400, "Only pending requests can be approved", NoData, TRUE)
     ELSE Answer(h, proc[h], 500, "Failed to approve request", NoData, TRUE)
  /\ UNCHANGED serial
  /\ UNCHANGED loginVars

\* PUT /requests/:id/reschedule: UPDATE appointment_requests SET status =
\* 'rescheduled', admin_notes = $1 WHERE id = $2 AND status = 'pending' RETURNING *
ProtectedReschedule(h, raw, adminNotes, token, k) ==
  /\ proc[h].pc = "idle"
  /\ Arrives(h)
  /\ LET p == [ProtectedCall("reschedule", raw, token) EXCEPT
                 !.suggested_datetime = SuggestedTime, !.admin_notes = adminNotes]
         a == protectAdminRoute(token, now)
         v == Visible(k)
     IN IF a.status # 200
          THEN UNCHANGED <<db, pool>> /\ Answer(h, p, a.status, a.code, NoData, FALSE)
        ELSE IF p.id \notin DOMAIN v.appointment_requests
                \/ v.appointment_requests[p.id].status # "pending"
          THEN /\ UNCHANGED <<db, pool>>
               /\ Answer(h, p, 404, "Request not found or not in pending status",
                         NoData, TRUE)
        ELSE /\ ~Locked(k, "appointment_requests", p.id)
             /\ Write(k, "appointment_requests", p.id,
                      [v.appointment_requests[p.id] EXCEPT
                         !.status = "rescheduled",
                         !.admin_notes = [kind |-> "reschedule", time |-> SuggestedTime,
                                          text |-> adminNotes]])
             /\ Answer(h, p, 200, "", [NoData EXCEPT !.request_id = p.id,
                                                      !.status = "rescheduled"], TRUE)
  /\ UNCHANGED serial
  /\ UNCHANGED loginVars

\* DELETE /requests/:id: UPDATE appointment_requests SET status = 'cancelled',
\* admin_notes = $1 WHERE id = $2 RETURNING *
ProtectedCancel(h, raw, reason, token, k) ==
  /\ proc[h].pc = "idle"
  /\ Arrives(h)
  /\ LET p == [ProtectedCall("cancel", raw, token) EXCEPT !.admin_notes = reason]
         a == protectAdminRoute(token, now)
         v == Visible(k)
     IN IF a.status # 200
          THEN UNCHANGED <<db, pool>> /\ Answer(h, p, a.status, a.code, NoData, FALSE)
        ELSE IF p.id \notin DOMAIN v.appointment_requests
          THEN /\ UNCHANGED <<db, pool>>
               /\ Answer(h, p, 404, "Request not found", NoData, TRUE)
        ELSE /\ ~Locked(k, "appointment_requests", p.id)
             /\ Write(k, "appointment_requests", p.id,
                      [v.appointment_requests[p.id] EXCEPT
                         !.status = "cancelled",
                         !.admin_notes =
                            Note(IF reason = "" THEN "No reason provided" ELSE reason)])
             /\ Answer(h, p, 200, "", [NoData EXCEPT !.request_id = p.id,
                                                      !.status = "cancelled"], TRUE)
  /\ UNCHANGED serial
  /\ UNCHANGED loginVars

ProtectedInit == AdminInit

ProtectedNext ==
  \/ \E h \in SerialHandlers, raw \in ProtectedIds, q \in PreferredTimeIds,
        n \in RescheduleNotes, t \in AdminTokens : ProtectedApproveRequest(h, raw, q, n, t)
  \/ \E h \in SerialHandlers, k \in Conns : PoolBegin(h, k)
  \/ \E h \in SerialHandlers, k \in Conns : PoolSelect(h, k)
  \/ \E h \in SerialHandlers, k \in Conns : PoolInsert(h, k)
  \/ \E h \in SerialHandlers, k \in Conns : PoolUpdate(h, k)
  \/ \E h \in SerialHandlers, k \in Conns : PoolCommit(h, k)
  \/ \E h \in SerialHandlers : PoolThrows(h)
  \/ \E h \in SerialHandlers, k \in Conns : PoolRollback(h, k)
  \/ \E h \in SerialHandlers, raw \in ProtectedIds, n \in RescheduleNotes,
        t \in AdminTokens, k \in Conns : ProtectedReschedule(h, raw, n, t, k)
  \/ \E h \in SerialHandlers, raw \in ProtectedIds, n \in Reasons,
        t \in AdminTokens, k \in Conns : ProtectedCancel(h, raw, n, t, k)

ProtectedSpec == ProtectedInit /\ [][ProtectedNext]_vars

\* ---------------------------------------------- claims on approve's atomicity
ApproveFailed == httpRes.op = "approve" /\ httpRes.ran /\ httpRes.status # 200

\* C4 as stated: the writes of an approve become visible together or not at all:
\* while an approve is in flight the committed rows are those it found, and when
\* it has failed they still are.
C4_Atomic ==
  /\ ApproveFailed => httpRes.unchanged /\ httpRes.inserted.appointments = {}
  /\ \A h \in Handlers :
       proc[h].op = "approve" /\ proc[h].pc # "idle" => db = proc[h].dbBefore

ApproveOfNonPending ==
  httpRes.op = "approve" /\ httpRes.ran /\ httpRes.statusBefore \notin {"", "pending"}

StateConflict ==
  /\ httpRes.status = 400
  /\ httpRes.error \in {"Only pending requests can be approved",
                        "Request is already confirmed", "Request is already cancelled",
                        "Request is already rescheduled", "Request is already superseded"}

\* C6 as stated: an approve of a request that is not pending, all of whose queries
\* were answered, answers the state conflict and leaves the committed rows unchanged.
C6_AsStated ==
  ApproveOfNonPending /\ httpRes.status # 500
    => StateConflict /\ httpRes.unchanged /\ httpRes.inserted.appointments = {}

\* C6, amended: an approve of a request that is not pending never succeeds, adds no
\* appointment and leaves the committed rows unchanged; unless a query failed (500),
\* the protected router answers the state conflict when the submitted preference
\* belongs to the request and 404 when it does not.
C6_NonPendingRefused ==
  ApproveOfNonPending =>
    /\ httpRes.unchanged /\ httpRes.inserted.appointments = {}
    /\ httpRes.status \in {400, 404, 500}
    /\ httpRes.status # 500 =>
         IF httpRes.preference_id \in PreferencesOf(db, httpRes.id)
           THEN StateConflict
           ELSE httpRes.status = 404
                /\ httpRes.error = "Request or preferred time not found"

\* A cancelled request 1 has been approved with its own preference 1 and refused.
C6_Witness ==
  /\ ApproveOfNonPending
  /\ httpRes.statusBefore = "cancelled"
  /\ httpRes.id = 1 /\ httpRes.preference_id = 1
  /\ StateConflict

\* ------------------------------------- booking, src/routes/requests.js
MaxPreferredTimes == 3
MaxPriority == 3

Time(datetime, priority) == [datetime |-> datetime, priority |-> priority]

BookingCustomers ==
  {[name |-> "Ada", email |-> "ada@mail", phone |-> "0123456789"],
   [name |-> "Ada L", email |-> "ada@mail", phone |-> "0987654321"],
   [name |-> "A", email |-> "ada@mail", phone |-> "0123456789"],
   [name |-> "Bob", email |-> "bob@mail", phone |-> "0123456789"]}

BookingServices == {0, 1, 2, 3}

BookingTimes ==
  {<<>>,
   <<Time(600, 1)>>,
   <<Time(720, 2), Time(600, 1)>>,
   <<Time(840, 3), Time(600, 1), Time(720, 1)>>,
   <<Time(NULL, 1)>>,
   <<Time(600, 4)>>,
   <<Time(600, 1), Time(720, 2), Time(840, 3), Time(960, 3)>>}

BookingNotes == {"", "after work"}

\* The bodies posted: one well-formed booking, and that booking with one of its
\* fields replaced.
BaseBody ==
  [customer |-> [name |-> "Ada", email |-> "ada@mail", phone |-> "0123456789"],
   service_id |-> 1, preferred_times |-> <<Time(720, 2), Time(600, 1)>>, notes |-> ""]

BookingBodies ==
  {[BaseBody EXCEPT !.customer = c] : c \in BookingCustomers}
  \cup {[BaseBody EXCEPT !.service_id = i] : i \in BookingServices}
  \cup {[BaseBody EXCEPT !.preferred_times = ts] : ts \in BookingTimes}
  \cup {[BaseBody EXCEPT !.notes = n] : n \in BookingNotes}

\* Joi: name string().min(2).max(255), email string().email(), phone
\* string().min(10).max(20), on the names, emails and phones above.
validCustomer(customer) ==
  customer.name \notin {"", "A"} /\ customer.email # "not-an-email" /\ customer.phone # ""

\* Joi: datetime date().min('now'), priority number().integer().min(1).max(3)
validTime(time, t) ==
  /\ time.datetime # NULL /\ time.datetime >= t
  /\ time.priority >= 1 /\ time.priority <= MaxPriority

\* bookingSchema.validate(req.body)
bookingSchema(body, t) ==
  /\ validCustomer(body.customer)
  /\ body.service_id > 0
  /\ Len(body.preferred_times) >= 1
  /\ Len(body.preferred_times) <= MaxPreferredTimes
  /\ \A i \in 1..Len(body.preferred_times) : validTime(body.preferred_times[i], t)

\* SELECT id, name, duration_minutes FROM services
\* WHERE id = $1 AND is_active = true AND deleted_at IS NULL
serviceQuery_AnyService(service_id) == {i \in DOMAIN services : i = service_id}

serviceQuery(service_id) ==
  {i \in DOMAIN services :
     i = service_id /\ services[i].is_active /\ services[i].deleted_at = NULL}

customerQuery_None(rows, email) == {}

\* SELECT id FROM customers WHERE email = $1 AND deleted_at IS NULL
customerQuery(rows, email) == {c \in DOMAIN rows.customers : rows.customers[c].email = email}

\* notes || null
notesOrNull(notes) == IF notes = "" THEN NoText ELSE notes

\* POST /api/requests: validation of the body.
BookingCall(h, body) ==
  /\ proc[h].pc = "idle"
  /\ UNCHANGED <<db, serial>>
  /\ LET p == [IdleProc EXCEPT !.op = "book", !.dbBefore = db, !.body = body]
     IN IF ~bookingSchema(p.body, now)
          THEN Answer(h, p, 400, "Validation failed", NoData, FALSE)
          ELSE Enter(h, p, "begin")
  /\ UNCHANGED authVars

\* A booking served while no other request is in flight.
BookingRequest(h, body) == Arrives(h) /\ BookingCall(h, body)

\* client = await beginTransaction()
BookingBegin(h) ==
  /\ proc[h].op = "book" /\ proc[h].pc = "begin"
  /\ Goto(h, Connect([proc[h] EXCEPT !.tx = beginTransaction]), "service")
  /\ UNCHANGED <<db, serial, httpRes>>
  /\ UNCHANGED authVars

\* The service check, by the pool: no active service, rollback and 400.
BookingService(h) ==
  /\ proc[h].op = "book" /\ proc[h].pc = "service"
  /\ IF serviceQuery(proc[h].body.service_id) = {}
       THEN /\ db' = rollbackTransaction(proc[h].tx)
            /\ Answer(h, Release(proc[h]), 400, "Invalid service selected", NoData, TRUE)
       ELSE /\ Goto(h, proc[h], "customer")
            /\ UNCHANGED <<db, httpRes>>
  /\ UNCHANGED serial
  /\ UNCHANGED authVars

\* The customer lookup, by the pool (it sees committed rows only).
BookingFindCustomer(h) ==
  /\ proc[h].op = "book" /\ proc[h].pc = "customer"
  /\ LET found == customerQuery(db, proc[h].body.customer.email) IN
       Goto(h, [proc[h] EXCEPT !.customer_id =
                  IF found = {} THEN NULL ELSE CHOOSE c \in found : TRUE],
            "saveCustomer")
  /\ UNCHANGED <<db, serial, httpRes>>
  /\ UNCHANGED authVars

\* Another handler's open transaction has inserted a customer of this email: the
\* unique index on customers.email makes an INSERT of the same email wait for it.
EmailPending(h, email) ==
  \E g \in Handlers \ {h} :
    \E c \in DOMAIN proc[g].tx.customers : proc[g].tx.customers[c].email = email

\* INSERT INTO customers ... RETURNING id for a new customer, UPDATE customers SET
\* name, phone for a known one, on the transaction's client. The INSERT of an
\* email that was committed after the lookup violates the unique index: the
\* catch block rolls back and answers 500.
BookingSaveCustomer(h) ==
  /\ proc[h].op = "book" /\ proc[h].pc = "saveCustomer"
  /\ LET p == proc[h]
         c == p.body.customer
     IN IF p.customer_id = NULL
          THEN /\ ~EmailPending(h, c.email)
               /\ IF customerQuery(db, c.email) # {}
                    THEN /\ db' = rollbackTransaction(p.tx)
                         /\ Answer(h, Release(p), 500, "Failed to create booking request",
                                   NoData, TRUE)
                         /\ UNCHANGED serial
                    ELSE /\ serial.customers < MaxRows
                         /\ serial' = [serial EXCEPT !.customers = @ + 1]
                         /\ Goto(h, [p EXCEPT
                               !.customer_id = serial'.customers,
                               !.tx = Put(@, "customers", serial'.customers,
                                          [id |-> serial'.customers, name |-> c.name,
                                           email |-> c.email, phone |-> c.phone])],
                               "request")
                         /\ UNCHANGED <<db, httpRes>>
          ELSE /\ ~Waits(h, "customers", {p.customer_id})
               /\ UNCHANGED serial
               /\ Goto(h, [p EXCEPT
                     !.tx = Put(@, "customers", p.customer_id,
                                [View(p.tx).customers[p.customer_id] EXCEPT
                                   !.name = c.name, !.phone = c.phone])],
                     "request")
               /\ UNCHANGED <<db, httpRes>>
  /\ UNCHANGED authVars

\* INSERT INTO appointment_requests (customer_id, service_id, customer_notes, status)
\* VALUES ($1, $2, $3, 'pending') RETURNING id
insertRequest_Confirmed(newId, p) ==
  [id |-> newId, customer_id |-> p.customer_id, service_id |-> p.body.service_id,
   status |-> "confirmed", customer_notes |-> notesOrNull(p.body.notes),
   admin_notes |-> NoNote, deleted_at |-> NULL]

insertRequest(newId, p) ==
  [id |-> newId, customer_id |-> p.customer_id, service_id |-> p.body.service_id,
   status |-> "pending", customer_notes |-> notesOrNull(p.body.notes),
   admin_notes |-> NoNote, deleted_at |-> NULL]

BookingInsertRequest(h) ==
  /\ proc[h].op = "book" /\ proc[h].pc = "request"
  /\ serial.appointment_requests < MaxRows
  /\ serial' = [serial EXCEPT !.appointment_requests = @ + 1]
  /\ Goto(h, [proc[h] EXCEPT
        !.id = serial'.appointment_requests,
        !.next = 1,
        !.tx = Put(@, "appointment_requests", serial'.appointment_requests,
                   insertRequest(serial'.appointment_requests, proc[h]))],
        "times")
  /\ UNCHANGED <<db, httpRes>>
  /\ UNCHANGED authVars

\* INSERT INTO request_time_preferences (request_id, preferred_datetime, priority)
insertPreference(newId, requestId, time) ==
  [id |-> newId, request_id |-> requestId, preferred_datetime |-> time.datetime,
   priority |-> time.priority, is_selected |-> FALSE]

\* One turn of the loop over preferred_times; after the last, the commit is next.
BookingInsertTime(h) ==
  /\ proc[h].op = "book" /\ proc[h].pc = "times"
  /\ LET p == proc[h]
         n == Len(p.body.preferred_times)
     IN /\ serial' = [serial EXCEPT !.request_time_preferences = @ + 1]
        /\ Goto(h, [p EXCEPT
              !.next = @ + 1,
              !.tx = Put(@, "request_time_preferences", serial'.request_time_preferences,
                         insertPreference(serial'.request_time_preferences, p.id,
                                          p.body.preferred_times[p.next]))],
              IF p.next = n THEN "commit" ELSE "times")
  /\ UNCHANGED <<db, httpRes>>
  /\ UNCHANGED authVars

\* await commitTransaction(client)
BookingCommit(h) ==
  /\ proc[h].op = "book" /\ proc[h].pc = "commit"
  /\ db' = commitTransaction(proc[h].tx)
  /\ Goto(h, Release([proc[h] EXCEPT !.tx = NoRows]), "readBack")
  /\ UNCHANGED <<serial, httpRes>>
  /\ UNCHANGED authVars

\* The sequences that hold each row of the set once, by ascending priority; rows
\* of equal priority come in either order.
OrderByPriority(rows) ==
  {out \in [1..Cardinality(rows) -> rows] :
     /\ \A i, j \in DOMAIN out : i # j => out[i] # out[j]
     /\ \A i, j \in DOMAIN out : i < j => out[i].priority <= out[j].priority}

\* The request is read back with its customer and service, and its preferences
\* SELECT preferred_datetime, priority ... WHERE request_id = $1 ORDER BY priority ASC;
\* then the 201.
BookingReadBack(h) ==
  /\ proc[h].op = "book" /\ proc[h].pc = "readBack"
  /\ UNCHANGED <<db, serial>>
  /\ LET p == proc[h]
         request == db.appointment_requests[p.id]
         rows == {db.request_time_preferences[q] :
                    q \in {i \in DOMAIN db.request_time_preferences :
                             db.request_time_preferences[i].request_id = p.id}}
     IN \E out \in OrderByPriority(rows) :
          Answer(h, p, 201, "",
                 [NoData EXCEPT
                    !.request_id = request.id,
                    !.status = request.status,
                    !.customer = [name |-> db.customers[request.customer_id].name,
                                  email |-> db.customers[request.customer_id].email,
                                  phone |-> db.customers[request.customer_id].phone],
                    !.duration_minutes = services[request.service_id].duration_minutes,
                    !.preferred_times =
                       [i \in DOMAIN out |-> Time(out[i].preferred_datetime, out[i].priority)],
                    !.notes = request.customer_notes],
                 TRUE)
  /\ UNCHANGED authVars

\* A query of the transaction rejects: the catch block rolls back and answers 500.
BookingThrows(h) ==
  /\ proc[h].op = "book"
  /\ proc[h].pc \in {"service", "customer", "saveCustomer", "request", "times", "commit"}
  /\ db' = rollbackTransaction(proc[h].tx)
  /\ Answer(h, Release(proc[h]), 500, "Failed to create booking request", NoData, TRUE)
  /\ UNCHANGED serial
  /\ UNCHANGED authVars

\* beginTransaction rejects, in pool.connect() or in BEGIN: client is still null,
\* the catch block skips the rollback and answers 500.
BookingBeginThrows(h, connected) ==
  /\ proc[h].op = "book" /\ proc[h].pc = "begin"
  /\ UNCHANGED <<db, serial>>
  /\ Answer(h, [proc[h] EXCEPT !.connects = IF connected THEN 1 ELSE 0],
            500, "Failed to create booking request", NoData, TRUE)
  /\ UNCHANGED authVars

\* One of the two queries that read the booking back rejects, after the commit.
\* The catch block finds client set and calls rollbackTransaction(client): ROLLBACK
\* on the released client undoes nothing, and client.release() is called a second
\* time. A pool that accepts it lets the handler answer 500; one that throws
\* ("Release called on client which has already been released to the pool")
\* ends the handler inside its catch block, with no response sent.
BookingReadBackThrows(h, accepted) ==
  /\ proc[h].op = "book" /\ proc[h].pc = "readBack"
  /\ db' = rollbackTransaction(NoRows)
  /\ IF accepted
       THEN Answer(h, Release(proc[h]), 500, "Failed to create booking request",
                   NoData, TRUE)
       ELSE Answer(h, proc[h], 0, "no response", NoData, TRUE)
  /\ UNCHANGED serial
  /\ UNCHANGED authVars

BookingInit == AuthInit /\ EmptyDbInit

BookingNext ==
  \/ \E h \in SerialHandlers, body \in BookingBodies : BookingRequest(h, body)
  \/ \E h \in SerialHandlers : BookingBegin(h)
  \/ \E h \in SerialHandlers : BookingService(h)
  \/ \E h \in SerialHandlers : BookingFindCustomer(h)
  \/ \E h \in SerialHandlers : BookingSaveCustomer(h)
  \/ \E h \in SerialHandlers : BookingInsertRequest(h)
  \/ \E h \in SerialHandlers : BookingInsertTime(h)
  \/ \E h \in SerialHandlers : BookingCommit(h)
  \/ \E h \in SerialHandlers : BookingReadBack(h)
  \/ \E h \in SerialHandlers : BookingThrows(h)
  \/ \E h \in SerialHandlers, connected \in BOOLEAN : BookingBeginThrows(h, connected)
  \/ \E h \in SerialHandlers, accepted \in BOOLEAN : BookingReadBackThrows(h, accepted)

BookingSpec == BookingInit /\ [][BookingNext]_vars

\* ----------------------------------------------------- claims on booking
Booked == httpRes.op = "book" /\ httpRes.status = 201

\* The service the body names is in the table and active.
NamesActiveService(body) ==
  body.service_id \in DOMAIN services /\ services[body.service_id].is_active

\* The rows hold exactly the submitted times, each once, with its priority.
RowsOfTimes(rows, times) ==
  \E f \in [1..Len(times) -> rows] :
    /\ \A i, j \in 1..Len(times) : i # j => f[i] # f[j]
    /\ {f[i] : i \in 1..Len(times)} = rows
    /\ \A i \in 1..Len(times) :
         /\ db.request_time_preferences[f[i]].preferred_datetime = times[i].datetime
         /\ db.request_time_preferences[f[i]].priority = times[i].priority

\* The sequence out is the sequence times in another order.
Reordered(out, times) ==
  /\ Len(out) = Len(times)
  /\ \E f \in [1..Len(times) -> 1..Len(times)] :
       /\ \A i, j \in 1..Len(times) : i # j => f[i] # f[j]
       /\ \A i \in 1..Len(times) : out[i] = times[f[i]]

\* C9: a booking that passed validation and named an active service is answered
\* 201 unless a query failed; when it is, the call has committed exactly one new
\* request, pending, for that service, and as many new preferences of that request
\* as times were submitted, each with its submitted time and priority and none
\* selected, and no appointment; the response lists the submitted times by
\* ascending priority.
C9_BookingCreatesPending ==
  /\ httpRes.op = "book" /\ httpRes.ran /\ NamesActiveService(httpRes.body)
       => httpRes.status \in {201, 500, 0}
  /\ Booked =>
       LET id == httpRes.data.request_id
           times == httpRes.body.preferred_times
           out == httpRes.data.preferred_times
       IN /\ httpRes.inserted.appointment_requests = {id}
          /\ db.appointment_requests[id].status = "pending"
          /\ httpRes.data.status = "pending"
          /\ db.appointment_requests[id].service_id = httpRes.body.service_id
          /\ db.customers[db.appointment_requests[id].customer_id].email
               = httpRes.body.customer.email
          /\ httpRes.inserted.request_time_preferences = PreferencesOf(db, id)
          /\ Cardinality(PreferencesOf(db, id)) = Len(times)
          /\ Len(times) >= 1 /\ Len(times) <= MaxPreferredTimes
          /\ RowsOfTimes(PreferencesOf(db, id), times)
          /\ SelectedOf(db, id) = {}
          /\ httpRes.inserted.appointments = {}
          /\ Reordered(out, times)
          /\ \A i, j \in 1..Len(out) : i < j => out[i].priority <= out[j].priority

\* A booking of three times, submitted out of order and two of them with the same
\* priority, has been answered 201.
C9_Witness ==
  /\ Booked
  /\ Len(httpRes.body.preferred_times) = 3
  /\ httpRes.body.preferred_times[1].priority = 3
  /\ httpRes.data.preferred_times[3].priority = 3

\* C10: a booking that passed validation and names a service that is inactive or
\* does not exist is answered 400 'Invalid service selected' (500 when the service
\* query itself failed), and the committed rows are those it found: no customer,
\* request or preference row is added.
C10_InvalidServiceRefused ==
  httpRes.op = "book" /\ httpRes.ran /\ ~NamesActiveService(httpRes.body)
    => /\ httpRes.status \in {400, 500}
       /\ httpRes.status = 400 => httpRes.error = "Invalid service selected"
       /\ httpRes.unchanged
       /\ \A t \in TableNames : httpRes.inserted[t] = {}

\* A booking of the inactive service 2 has been refused after an earlier booking
\* went through.
C10_Witness ==
  /\ httpRes.op = "book" /\ httpRes.ran
  /\ httpRes.body.service_id = 2
  /\ httpRes.status = 400 /\ httpRes.error = "Invalid service selected"
  /\ DOMAIN db.appointment_requests # {}

\* ------------------------------------ claims on failures and the pool's clients
\* C11 as stated: when the booking is answered 500, the committed rows are those
\* the call found: none of its customer, request or preference rows is kept.
C11_FailureKeepsNothing ==
  httpRes.op = "book" /\ httpRes.status = 500
    => httpRes.unchanged /\ \A t \in TableNames : httpRes.inserted[t] = {}

\* C12 as stated: when a booking or an approval has ended, it has released a client
\* as many times as it took one from the pool: none is kept, none released twice.
C12_ReleasedOnce ==
  httpRes.op \in {"book", "approve"} => httpRes.releases = httpRes.connects

\* --------------------------------- tokens of a deactivated account
\* An account is deactivated (UPDATE admin_users SET is_active = false, by hand:
\* no route of the API does it).
Deactivate(i) ==
  /\ admin_users[i].is_active
  /\ admin_users' = [admin_users EXCEPT ![i].is_active = FALSE]
  /\ UNCHANGED <<now, authHits, login, loginRes, wrongSince>>
  /\ UNCHANGED dbVars

\* GET /api/auth/verify: the token is verified and the account re-read, as in
\* authenticateToken.
verifyRoute(token, t) ==
  IF token = NoToken THEN Verdict(401, "TOKEN_REQUIRED", NoUser)
  ELSE IF jwtVerify(token, t) = "JsonWebTokenError"
    THEN Verdict(401, "INVALID_TOKEN", NoUser)
  ELSE IF jwtVerify(token, t) = "TokenExpiredError"
    THEN Verdict(401, "TOKEN_EXPIRED", NoUser)
  ELSE LET rows == {i \in AccountIds : admin_users[i].id = token.id
                                        /\ admin_users[i].is_active} IN
    IF rows = {} THEN Verdict(401, "USER_NOT_FOUND", NoUser)
    ELSE LET row == admin_users[CHOOSE i \in rows : TRUE] IN
      Verdict(200, "", [id |-> row.id, email |-> row.email, role |-> row.role])

VerifyToken(h, token) ==
  /\ proc[h].pc = "idle"
  /\ Arrives(h)
  /\ UNCHANGED <<db, serial, pool>>
  /\ LET a == verifyRoute(token, now) IN
       Answer(h, Call("verify", "x", token), a.status, a.code, NoData, a.status = 200)
  /\ UNCHANGED loginVars

\* The Authorization headers sent: those of AdminTokens and the token of the last
\* login response.
PresentedTokens == AdminTokens \cup {loginRes.res.token}

TokenNext ==
  \/ \E p \in {"h1"}, c \in Clients, pw \in {RightPassword, "wrong-pw"},
        rememberMe \in BOOLEAN : LoginRequestSerial(p, c, "rhi@salon", pw, rememberMe)
  \/ \E p \in LoginProcs : LoginFailed(p)
  \/ \E p \in LoginProcs : LoginSucceeded(p)
  \/ \E i \in AccountIds : Deactivate(i)
  \/ \E h \in SerialHandlers, t \in PresentedTokens : VerifyToken(h, t)
  \/ \E h \in SerialHandlers, t \in PresentedTokens, k \in Conns :
       ProtectedCancel(h, "1", "", t, k)
  \/ \E h \in SerialHandlers, t \in PresentedTokens, k \in Conns :
       ProtectedReschedule(h, "1", "", t, k)

TokenSpec == AdminInit /\ [][TokenNext]_vars

ProtectedOps == {"verify", "approve", "reschedule", "cancel"}

\* C13: a request to /verify or to a protected route whose token is signed and
\* unexpired, and whose account is not active when the request arrives, is answered
\* 401 USER_NOT_FOUND and its handler body does not run.
C13_DeactivatedRejected ==
  httpRes.op \in ProtectedOps /\ httpRes.tokenLive /\ ~httpRes.tokenActive
    => httpRes.status = 401 /\ httpRes.error = "USER_NOT_FOUND" /\ ~httpRes.ran

\* The admin logged in and got a token, the account was deactivated, and a
\* cancellation with that token has been rejected.
C13_Witness ==
  /\ httpRes.op = "cancel"
  /\ httpRes.token = loginRes.res.token
  /\ loginRes.res.status = 200
  /\ httpRes.token.id = 1
  /\ httpRes.tokenLive /\ ~httpRes.tokenActive
  /\ ~admin_users[1].is_active
  /\ httpRes.status = 401 /\ httpRes.error = "USER_NOT_FOUND"

\* ------------------------------------------ what a failed login gives away

\* if (userResult.rows.length === 0): the answer to a login whose email has no
\* active account.
unknownEmailResponse ==
  Response(401, "INVALID_CREDENTIALS", "Invalid email or password", NoToken)

\* The login answered last carried a well-formed email and a wrong password and
\* was let through by the limiter.
WrongPasswordAnswered ==
  /\ loginRes.password = "wrong-pw"
  /\ isEmail(loginRes.email)
  /\ loginRes.res.status \notin {0, 429}

\* C14: a wrong-password login is answered the same (status, code, message)
\* whether or not its email has an active account. The limiter counts requests
\* by client, not by account, and an email without an active account is always
\* answered unknownEmailResponse; so two runs of the same attempts, one against
\* an existing account and one against none, answer alike exactly when every
\* answer of the first is unknownEmailResponse.
C14_Indistinguishable ==
  WrongPasswordAnswered => loginRes.res = unknownEmailResponse

\* ----------------------------------------------------- routes behind a role

\* The roles an account may carry: role VARCHAR(50) DEFAULT 'admin'.
Roles == {"admin", "super_admin", "stylist"}

\* An account's role is changed in the table.
SetRole(i, role) ==
  /\ admin_users[i].role # role
  /\ admin_users' = [admin_users EXCEPT ![i].role = role]
  /\ UNCHANGED <<now, authHits, login, loginRes, wrongSince>>
  /\ UNCHANGED dbVars

\* The argument of requireRole: a single role or an array of roles.
OneRole(role) == [isArray |-> FALSE, role |-> role, items |-> <<>>]

RoleArray(items) == [isArray |-> TRUE, role |-> "", items |-> items]

\* requireSuperAdmin, requireAdmin, and an empty array.
RequiredRoles ==
  {OneRole("super_admin"), RoleArray(<<"admin", "super_admin">>), RoleArray(<<>>)}

\* const roles = Array.isArray(requiredRoles) ? requiredRoles : [requiredRoles]
roleArray(requiredRoles) ==
  IF requiredRoles.isArray THEN requiredRoles.items ELSE <<requiredRoles.role>>

\* The roles roles.includes(...) accepts.
included(roles) == {roles[n] : n \in DOMAIN roles}

\* protectAdminRoute(requiredRole): authenticateToken, then requireRole(requiredRole).
protectRoute(requiredRole, token, t) ==
  LET a == authenticateToken(token, t) IN
    IF a.status # 200 THEN a
    ELSE requireRole(included(roleArray(requiredRole)), a.user)

\* A route mounted behind protectAdminRoute(requiredRole): its handler runs when
\* the middleware calls next().
GuardedRoute(h, requiredRole, token) ==
  /\ proc[h].pc = "idle"
  /\ Arrives(h)
  /\ UNCHANGED <<db, serial, pool>>
  /\ LET p == [Call("guarded", "x", token) EXCEPT
                 !.roles = included(roleArray(requiredRole))]
         a == protectRoute(requiredRole, token, now)
     IN Answer(h, p, a.status, a.code, NoData, a.status = 200)
  /\ UNCHANGED loginVars

RoleNext ==
  \/ \E i \in AccountIds, role \in Roles : SetRole(i, role)
  \/ \E i \in AccountIds : Deactivate(i)
  \/ \E h \in SerialHandlers, rr \in RequiredRoles, t \in AdminTokens :
       GuardedRoute(h, rr, t)
  \/ \E h \in SerialHandlers, raw \in ProtectedIds, t \in AdminTokens, k \in Conns :
       ProtectedCancel(h, raw, "", t, k)

RoleSpec == AdminInit /\ [][RoleNext]_vars

\* The call answered last came with a signed, unexpired token of an active account.
Verified == httpRes.tokenLive /\ httpRes.tokenActive

\* C15: a call whose verified account has a role outside the route's allowed set
\* is answered 403 INSUFFICIENT_PERMISSIONS, and the route's handler runs only for
\* a verified account whose role is in the set.
C15_RoleGate ==
  httpRes.op \in {"guarded", "cancel"} =>
    /\ (Verified /\ httpRes.role \notin httpRes.roles =>
          /\ httpRes.status = 403
          /\ httpRes.error = "INSUFFICIENT_PERMISSIONS"
          /\ ~httpRes.ran)
    /\ (httpRes.ran => Verified /\ httpRes.role \in httpRes.roles)

\* An admin was refused on a route for super admins only.
C15_Witness ==
  /\ httpRes.op = "guarded"
  /\ Verified
  /\ httpRes.role = "admin"
  /\ httpRes.roles = {"super_admin"}
  /\ httpRes.status = 403
  /\ httpRes.error = "INSUFFICIENT_PERMISSIONS"

\* ------------------------------------ approve with another request's preference

\* The approve answered last was of a request that was pending when it arrived, with
\* a preference id that is not one of that request's.
ForeignPreference ==
  /\ httpRes.op = "approve" /\ httpRes.ran
  /\ httpRes.statusBefore = "pending"
  /\ httpRes.preference_id \notin PreferencesOf(db, httpRes.id)

InvalidPreference ==
  /\ httpRes.status = 400
  /\ httpRes.error = "Invalid time preference selected"

\* C16 as stated: an approve with a preference id that does not belong to the
\* request, all of whose queries were answered, fails with the invalid-preference
\* error, adds no appointment and leaves the committed rows unchanged.
C16_AsStated ==
  ForeignPreference /\ httpRes.status # 500 =>
    InvalidPreference /\ httpRes.unchanged /\ httpRes.inserted.appointments = {}

\* C16, amended: an approve with a preference id that does not belong to the
\* request never succeeds, adds no appointment and leaves the committed rows
\* unchanged; unless a query failed (500), the protected router answers it 404
\* 'Request or preferred time not found', as it answers an unknown request.
C16_ForeignPreferenceRefused ==
  ForeignPreference =>
    /\ httpRes.unchanged /\ httpRes.inserted.appointments = {}
    /\ httpRes.status \in {404, 500}
    /\ httpRes.status = 404 => httpRes.error = "Request or preferred time not found"

\* Pending request 1 has been approved with preference 3, which is request 2's.
C16_Witness ==
  /\ ForeignPreference
  /\ httpRes.id = 1 /\ httpRes.preference_id = 3
  /\ httpRes.status = 404
  /\ db.appointment_requests[1].status = "pending"

\* ------------------------------------------------ where appointments come from

\* The appointment row names a request and one of that request's preferences, is
\* scheduled at that preference's time for the duration of the request's service,
\* and is in status scheduled.
FromPreference(rows, a) ==
  LET row == rows.appointments[a] IN
    /\ row.request_id \in DOMAIN rows.appointment_requests
    /\ row.preference_id \in PreferencesOf(rows, row.request_id)
    /\ row.scheduled_datetime =
         rows.request_time_preferences[row.preference_id].preferred_datetime
    /\ row.duration_minutes =
         services[rows.appointment_requests[row.request_id].service_id].duration_minutes
    /\ row.status = "scheduled"

\* C17: every committed appointment row references a request and a preference of
\* that request, at the preference's time, for the service's duration, in status
\* scheduled; and only a call of approve that answered 200 has committed one.
C17_AppointmentsFromApprove ==
  /\ \A a \in DOMAIN db.appointments : FromPreference(db, a)
  /\ httpRes.inserted.appointments # {} => Approved

\* ------------------------------------------------------ customers by email

CustomersOf(rows, email) ==
  {c \in DOMAIN rows.customers : rows.customers[c].email = email}

\* No committed customer row is removed or given another email.
CustomersStay ==
  \A c \in DOMAIN db.customers :
    c \in DOMAIN db'.customers /\ db'.customers[c].email = db.customers[c].email

\* No two committed customer rows share an email, and after a booking that was
\* answered 201 the one row of the submitted email carries the submitted name
\* and phone, and is the only customer row the booking may have added.
OneCustomerPerEmail ==
  /\ \A c, d \in DOMAIN db.customers :
       db.customers[c].email = db.customers[d].email => c = d
  /\ Booked =>
       \E c \in DOMAIN db.customers :
         /\ CustomersOf(db, httpRes.body.customer.email) = {c}
         /\ db.customers[c].name = httpRes.body.customer.name
         /\ db.customers[c].phone = httpRes.body.customer.phone
         /\ httpRes.inserted.customers \subseteq {c}

\* C18: whatever bookings were submitted one after the other, there is one
\* customer row per email; it is the row the first booking of that email inserted
\* (a row, once committed, stays and keeps its email) and it carries the name and
\* phone of the latest booking of that email that succeeded.
C18_UpsertByEmail == [][CustomersStay]_vars /\ []OneCustomerPerEmail

\* A second booking of ada@mail under another name and phone has updated the row
\* the first one inserted.
C18_Witness ==
  /\ Booked
  /\ httpRes.body.customer.name = "Ada L"
  /\ httpRes.inserted.customers = {}
  /\ Cardinality(DOMAIN db.appointment_requests) = 2
  /\ \E c \in DOMAIN db.customers :
       /\ db.customers[c].email = "ada@mail"
       /\ db.customers[c].name = "Ada L"
       /\ db.customers[c].phone = "0987654321"

\* ------------------------------------- GET /api/requests/:id after a booking

\* SELECT ... FROM appointment_requests ar JOIN customers c ON ar.customer_id = c.id
\* JOIN services s ON ar.service_id = s.id WHERE ar.id = $1 AND ar.deleted_at IS NULL
requestJoin(rows, id) ==
  {r \in DOMAIN rows.appointment_requests :
     /\ r = id
     /\ rows.appointment_requests[r].deleted_at = NULL
     /\ rows.appointment_requests[r].customer_id \in DOMAIN rows.customers
     /\ rows.appointment_requests[r].service_id \in DOMAIN services}

timePreferences_All(rows, id) ==
  {rows.request_time_preferences[q] : q \in DOMAIN rows.request_time_preferences}

\* SELECT preferred_datetime, priority, is_selected FROM request_time_preferences
\* WHERE request_id = $1
timePreferences(rows, id) ==
  {rows.request_time_preferences[q] : q \in PreferencesOf(rows, id)}

\* GET /api/requests/:id. The response names the customer by name and email and
\* the service by name, duration and price; it carries no phone and no service id.
\* As history the call keeps the body of the booking answered 201 just before it,
\* when it asks for the request that booking created.
GetRequest(h, raw, fails) ==
  /\ proc[h].pc = "idle"
  /\ Arrives(h)
  /\ UNCHANGED <<db, serial>>
  /\ LET p == [IdleProc EXCEPT
                 !.op = "get", !.id = ParseId(raw), !.dbBefore = db,
                 !.body = IF Booked /\ httpRes.data.request_id = ParseId(raw)
                            THEN httpRes.body ELSE NoBody]
     IN IF ~validId(raw) THEN Answer(h, p, 400, "Invalid request ID", NoData, FALSE)
        ELSE IF fails THEN Answer(h, p, 500, "Failed to fetch request", NoData, TRUE)
        ELSE IF requestJoin(db, p.id) = {}
          THEN Answer(h, p, 404, "Request not found", NoData, TRUE)
        ELSE LET request == db.appointment_requests[p.id] IN
          \E out \in OrderByPriority(timePreferences(db, p.id)) :
            Answer(h, p, 200, "",
                   [NoData EXCEPT
                      !.request_id = request.id,
                      !.status = request.status,
                      !.customer = [NoCustomer EXCEPT
                                      !.name = db.customers[request.customer_id].name,
                                      !.email = db.customers[request.customer_id].email],
                      !.service_name = services[request.service_id].name,
                      !.duration_minutes = services[request.service_id].duration_minutes,
                      !.preferred_times =
                         [i \in DOMAIN out |->
                            [preferred_datetime |-> out[i].preferred_datetime,
                             priority |-> out[i].priority,
                             is_selected |-> out[i].is_selected]],
                      !.notes = request.customer_notes],
                   TRUE)
  /\ UNCHANGED authVars

RoundTripNext ==
  \/ BookingNext
  \/ \E h \in SerialHandlers, raw \in AdminIds, fails \in BOOLEAN : GetRequest(h, raw, fails)

RoundTripSpec == BookingInit /\ [][RoundTripNext]_vars

\* The GET answered last asked for the request of the booking answered 201 just
\* before it, and its queries were answered.
ReadAfterBooking ==
  httpRes.op = "get" /\ httpRes.body # NoBody /\ httpRes.status # 500

\* The times read are the times submitted, each once, with its priority.
SameTimes(out, times) ==
  Reordered([i \in DOMAIN out |-> Time(out[i].preferred_datetime, out[i].priority)], times)

\* C19 as stated: the GET right after a booking answers 200 with the submitted
\* customer fields (name, email, phone), the submitted service, the submitted
\* times with their priorities, and status pending.
C19_AsStated ==
  ReadAfterBooking =>
    /\ httpRes.status = 200
    /\ httpRes.data.customer = httpRes.body.customer
    /\ httpRes.data.service_name = services[httpRes.body.service_id].name
    /\ SameTimes(httpRes.data.preferred_times, httpRes.body.preferred_times)
    /\ httpRes.data.status = "pending"

\* C19, amended: the GET right after a booking answers 200 with the submitted
\* customer's name and email (the phone is not in the response), the name and
\* duration of the submitted service, the submitted notes, the submitted times with
\* their priorities by ascending priority, none selected, and status pending.
C19_RoundTrip ==
  ReadAfterBooking =>
    /\ httpRes.status = 200
    /\ httpRes.data.customer.name = httpRes.body.customer.name
    /\ httpRes.data.customer.email = httpRes.body.customer.email
    /\ httpRes.data.customer.phone = NoCustomer.phone
    /\ httpRes.data.service_name = services[httpRes.body.service_id].name
    /\ httpRes.data.duration_minutes = services[httpRes.body.service_id].duration_minutes
    /\ httpRes.data.notes = notesOrNull(httpRes.body.notes)
    /\ SameTimes(httpRes.data.preferred_times, httpRes.body.preferred_times)
    /\ \A i \in DOMAIN httpRes.data.preferred_times :
         /\ ~httpRes.data.preferred_times[i].is_selected
         /\ \A j \in DOMAIN httpRes.data.preferred_times :
              i < j => httpRes.data.preferred_times[i].priority
                         <= httpRes.data.preferred_times[j].priority
    /\ httpRes.data.status = "pending"

\* The second booking, of three times, has been read back.
C19_Witness ==
  /\ ReadAfterBooking
  /\ httpRes.status = 200
  /\ httpRes.data.request_id = 2
  /\ Len(httpRes.body.preferred_times) = 3
  /\ Len(httpRes.data.preferred_times) = 3

\* --------------------------------------------------- logins on a locked account

\* A login has just been answered.
LoginAnswered == loginRes' # loginRes

\* The step that answers a login for an account locked at its arrival leaves the
\* account's row as it was and takes no handler to the password comparison; a 423
\* carries the minutes left of the lock.
LockedLoginFrame ==
  /\ loginRes'.lockedAtArrival /\ now' = now =>
       admin_users'[loginRes'.id] = admin_users[loginRes'.id]
  /\ LoginAnswered /\ loginRes'.lockedAtArrival =>
       /\ login' = login
       /\ loginRes'.res.status = 423 =>
            loginRes'.res.minutes = admin_users[loginRes'.id].locked_until - now

\* C20 as stated: a login for an account whose lock runs is answered 423
\* ACCOUNT_LOCKED.
C20_AsStated ==
  loginRes.lockedAtArrival =>
    loginRes.res.status = 423 /\ loginRes.res.code = "ACCOUNT_LOCKED"

\* C20, amended: a login for an account whose lock runs is answered 423
\* ACCOUNT_LOCKED with the minutes left, whatever its password, unless the limiter
\* (429) or the validation (400) has answered it first; in each case no token is
\* issued, the password is not compared and the account's counter, lock-until and
\* last-login stay as they were.
C20_LockedLeavesAccount ==
  /\ [][LockedLoginFrame]_vars
  /\ [](loginRes.lockedAtArrival =>
          /\ loginRes.res.status \in {423, 429, 400}
          /\ loginRes.res.token = NoToken
          /\ loginRes.res.status = 423 =>
               /\ loginRes.res.code = "ACCOUNT_LOCKED"
               /\ loginRes.res.minutes >= 1 /\ loginRes.res.minutes <= LockMinutes
          /\ loginValidation(loginRes.email, loginRes.password)
               => loginRes.res.status \in {423, 429})

\* A wrong password was answered 423 one tick into the lock, the account still at
\* its fifth failure.
C20_Witness ==
  /\ loginRes.lockedAtArrival
  /\ loginRes.password = "wrong-pw"
  /\ loginRes.res.status = 423
  /\ loginRes.res.minutes = LockMinutes - TickMinutes
  /\ admin_users[loginRes.id].failed_login_attempts = LockThreshold
  /\ admin_users[loginRes.id].last_login_at = NULL

\* ------------------------------------------------------- when a lock runs out

\* A lock that still runs is left as it is.
LockStays ==
  \A i \in AccountIds :
    admin_users[i].locked_until # NULL /\ now < admin_users[i].locked_until
      => admin_users'[i].locked_until = admin_users[i].locked_until

\* The login answered last carried the right password, reached the handler, and
\* found on the account a lock that had run out.
RightPasswordAfterExpiry ==
  /\ loginRes.expiredAtArrival
  /\ loginRes.password = RightPassword
  /\ loginRes.res.status # 429

\* C21: while now < lock-until the lock stays and no login of the account yields
\* a token; a login with the right password that arrives when now >= lock-until
\* and is evaluated by the handler is answered 200 with a token, and the account's
\* counter is 0 and its lock-until null.
C21_ExpiredLockLetsIn ==
  /\ [][LockStays]_vars
  /\ [](loginRes.lockedAtArrival =>
          loginRes.res.status # 200 /\ loginRes.res.token = NoToken)
  /\ [](RightPasswordAfterExpiry =>
          /\ loginRes.res.status = 200
          /\ loginRes.res.token # NoToken
          /\ admin_users[loginRes.id].failed_login_attempts = 0
          /\ admin_users[loginRes.id].locked_until = NULL)

\* The right password was accepted after the lock had run out.
C21_Witness ==
  /\ RightPasswordAfterExpiry
  /\ loginRes.res.status = 200
  /\ loginRes.res.token.id = loginRes.id
  /\ admin_users[loginRes.id].locked_until = NULL
  /\ admin_users[loginRes.id].last_login_at >= LockMinutes

\* ------------------------------------------------------------- reschedule

\* C22: a reschedule whose queries were answered, of a request that was pending
\* when it arrived, is answered 200 and leaves the request in status rescheduled
\* with the suggested time in its admin notes; of any other request, or of none,
\* it is refused and the committed rows are those it found.
C22_Reschedule ==
  httpRes.op = "reschedule" /\ httpRes.ran /\ httpRes.status # 500 =>
    IF httpRes.statusBefore = "pending"
      THEN /\ httpRes.status = 200
           /\ db.appointment_requests[httpRes.id].status = "rescheduled"
           /\ db.appointment_requests[httpRes.id].admin_notes.kind = "reschedule"
           /\ db.appointment_requests[httpRes.id].admin_notes.time # NULL
      ELSE /\ httpRes.status \in {400, 404}
           /\ httpRes.unchanged

\* ------------------------------------------- approvals of one time slot

\* The approve answered last, all of whose queries were answered, was of a request
\* that was pending when it arrived, with one of that request's preferences.
ApproveOfOwnPreference ==
  /\ httpRes.op = "approve" /\ httpRes.ran /\ httpRes.status # 500
  /\ httpRes.statusBefore = "pending"
  /\ httpRes.preference_id \in PreferencesOf(db, httpRes.id)

\* C23: an approve of a pending request with one of its preferences succeeds
\* whatever appointments are already scheduled at the chosen time: the result of
\* the conflict query refuses nothing.
C23_ConflictsAllowed == ApproveOfOwnPreference => httpRes.status = 200

\* Two requests of one service were approved for the same time, and the scheduled
\* appointments at that time outnumber the service's max_concurrent.
C23_Witness ==
  /\ Approved
  /\ ApproveOfOwnPreference
  /\ LET request == db.appointment_requests[httpRes.id]
         slot == db.request_time_preferences[httpRes.preference_id].preferred_datetime
         taken == {a \in conflictCheck(db, slot) :
                     db.appointments[a].service_id = request.service_id}
     IN Cardinality(taken) > services[request.service_id].max_concurrent

\* ------------------------------------------------ POST /api/auth/forgot-password

forgotPasswordResponse_Reveals(rows) ==
  IF rows = {} THEN Response(404, "USER_NOT_FOUND", "No account with that email", NoToken)
  ELSE Response(200, "", "If an account with that email exists, password reset " \o
                         "instructions have been sent.", NoToken)

\* res.json({success: true, message: 'If an account with that email exists, ...'}),
\* sent before the rows of the SELECT are looked at.
forgotPasswordResponse(rows) ==
  Response(200, "", "If an account with that email exists, password reset " \o
                    "instructions have been sent.", NoToken)

\* POST /api/auth/forgot-password: authLimiter (the one login uses),
\* passwordResetValidation, the SELECT of the active account, the response; a
\* rejected query goes to the catch block.
ForgotPassword(c, email, fails) ==
  /\ \A q \in LoginProcs : login[q].pc = "idle"
  /\ LET hit == limiterHit(c, now)
         rows == userQuery(email)
         req == [Idle EXCEPT !.op = "forgot", !.email = email,
                             !.id = IF rows = {} THEN NULL ELSE CHOOSE i \in rows : TRUE]
     IN
     /\ authHits' = [authHits EXCEPT ![c] = hit]
     /\ loginRes' =
          Finished(req,
            IF rateLimited(hit)
              THEN Response(429, "RATE_LIMIT_EXCEEDED", "Too many login attempts", NoToken)
            ELSE IF ~isEmail(email)
              THEN Response(400, "", "Invalid input data", NoToken)
            ELSE IF fails
              THEN Response(500, "", "Internal server error", NoToken)
            ELSE forgotPasswordResponse(rows))
  /\ UNCHANGED <<now, admin_users, login, wrongSince>>
  /\ UNCHANGED dbVars

ForgotNext ==
  \/ Tick
  \/ \E p \in {"h1"}, c \in Clients, pw \in {RightPassword, "wrong-pw"} :
       LoginRequestSerial(p, c, "rhi@salon", pw, FALSE)
  \/ \E p \in LoginProcs : LoginFailed(p)
  \/ \E p \in LoginProcs : LoginSucceeded(p)
  \/ \E c \in Clients, e \in Emails, fails \in BOOLEAN : ForgotPassword(c, e, fails)

ForgotSpec == LoginInit /\ [][ForgotNext]_vars

\* The step is a forgot-password request: no login moved and the clock stood.
ForgotStep == loginRes'.op = "forgot" /\ login' = login /\ now' = now

\* C24: a forgot-password request with a well-formed email that the limiter let
\* through and whose query was answered gets the one success response, whether
\* or not the email has an active account; and no forgot-password request changes
\* any account.
C24_ForgotRevealsNothing ==
  /\ [][ForgotStep => admin_users' = admin_users]_vars
  /\ [](loginRes.op = "forgot" /\ isEmail(loginRes.email)
          /\ loginRes.res.status \notin {429, 500} =>
            /\ loginRes.res.status = 200
            /\ loginRes.res.code = ""
            /\ loginRes.res.message = "If an account with that email exists, password reset "
                                        \o "instructions have been sent."
            /\ loginRes.res.token = NoToken)

\* The reset was asked for an existing account that had failed logins on record.
C24_Witness ==
  /\ loginRes.op = "forgot"
  /\ loginRes.email = "rhi@salon"
  /\ loginRes.id = 1
  /\ loginRes.res.status = 200
  /\ admin_users[1].failed_login_attempts > 0

\* ------------------------------------------- approves of one request that overlap

\* Approves of request 1 on the part_001 router, each on its own client of the
\* pool, interleaving at their awaits.
ApproveConcNext ==
  \/ \E h \in Handlers, q \in {1, 2} : ApproveCall(h, "1", q, "", NoToken)
  \/ \E h \in Handlers : ApproveBegin(h)
  \/ \E h \in Handlers : ApproveSelect(h)
  \/ \E h \in Handlers : ApproveMarkSelected(h)
  \/ \E h \in Handlers : ApproveMarkOthers(h)
  \/ \E h \in Handlers : ApproveConfirm(h)
  \/ \E h \in Handlers : ApproveInsert(h)
  \/ \E h \in Handlers : ApproveCommit(h)
  \/ \E h \in Handlers : ApproveThrows(h)

ApproveConcSpec == AdminInit /\ [][ApproveConcNext]_vars

\* C25: a request has at most one appointment, and when it has one, exactly one
\* of its preferences is selected, the one the appointment references.
C25_OneAppointmentPerRequest ==
  \A r \in DOMAIN db.appointment_requests :
    /\ Cardinality(AppointmentsOf(db, r)) <= 1
    /\ \A a \in AppointmentsOf(db, r) :
         SelectedOf(db, r) = {db.appointments[a].preference_id}

\* --------------------------------------------- failed logins that overlap

\* C26: the stored failed-attempt counter of every account equals the number of
\* wrong passwords evaluated against it since its last successful login, and no
\* more than 5 are evaluated before the account is locked.
C26_CounterCountsFailures ==
  \A i \in AccountIds :
    /\ admin_users[i].failed_login_attempts = wrongSince[i]
    /\ admin_users[i].locked_until = NULL => wrongSince[i] < LockThreshold

\* ------------------------------------------------- the counter after a lock

\* A step that changes an account's counter either adds one failure, locking the
\* account for 30 minutes from now when the count is at 5 or above, or is the
\* successful login that sets it to 0.
CounterStep ==
  \A i \in AccountIds :
    admin_users'[i].failed_login_attempts # admin_users[i].failed_login_attempts =>
      \/ /\ admin_users'[i].failed_login_attempts = admin_users[i].failed_login_attempts + 1
         /\ admin_users'[i].failed_login_attempts >= LockThreshold
              => admin_users'[i].locked_until = now + LockMinutes
      \/ /\ admin_users'[i].failed_login_attempts = 0
         /\ loginRes'.res.status = 200 /\ loginRes'.id = i

\* C27: a lock that has run out leaves the counter where it was, at 5 or above; a
\* wrong password after that takes the counter above 5 and locks the account for
\* another 30 minutes at once; only a successful login takes the counter down, to 0.
C27_ExpiredLockKeepsCounter ==
  /\ [][CounterStep]_vars
  /\ [](\A i \in AccountIds :
          admin_users[i].locked_until # NULL /\ now >= admin_users[i].locked_until
            => admin_users[i].failed_login_attempts >= LockThreshold)

\* One wrong password after the first lock ran out: the counter is at 6 and the
\* account locked for 30 minutes from now.
C27_Witness ==
  /\ loginRes.expiredAtArrival
  /\ loginRes.password = "wrong-pw"
  /\ loginRes.res.status = 401
  /\ admin_users[loginRes.id].failed_login_attempts = LockThreshold + 1
  /\ admin_users[loginRes.id].locked_until = now + LockMinutes

\* --------------------------------------- appointments of cancelled requests

\* C28: every committed appointment in status scheduled belongs to a request in
\* status confirmed.
C28_ScheduledMeansConfirmed ==
  \A a \in DOMAIN db.appointments :
    db.appointments[a].status = "scheduled" =>
      /\ db.appointments[a].request_id \in DOMAIN db.appointment_requests
      /\ db.appointment_requests[db.appointments[a].request_id].status = "confirmed"

\* --------------------------------------------------- bookings that overlap

\* Two well-formed bookings of one email, under two names.
ConcBodies ==
  {BaseBody, [BaseBody EXCEPT !.customer.name = "Ada L", !.customer.phone = "0987654321"]}

\* Bookings interleaving at their awaits, each transaction on its own client of
\* the pool; every query is answered.
BookingConcNext ==
  \/ \E h \in Handlers, body \in ConcBodies : BookingCall(h, body)
  \/ \E h \in Handlers : BookingBegin(h)
  \/ \E h \in Handlers : BookingService(h)
  \/ \E h \in Handlers : BookingFindCustomer(h)
  \/ \E h \in Handlers : BookingSaveCustomer(h)
  \/ \E h \in Handlers : BookingInsertRequest(h)
  \/ \E h \in Handlers : BookingInsertTime(h)
  \/ \E h \in Handlers : BookingCommit(h)
  \/ \E h \in Handlers : BookingReadBack(h)

BookingConcSpec == BookingInit /\ [][BookingConcNext]_vars

\* C29: however bookings of one email interleave, no two customer rows share an
\* email and every booking, its queries answered, is answered 201.
C29_NoDuplicateNoFailure ==
  /\ \A c, d \in DOMAIN db.customers :
       db.customers[c].email = db.customers[d].email => c = d
  /\ httpRes.op = "book" /\ httpRes.ran => httpRes.status = 201

\* ------------------------------------- tokens issued before a change of role

\* The admin logs in, the account's role is changed, and the token the login
\* returned is presented to routes behind protectAdminRoute(requiredRole).
RoleTokenNext ==
  \/ \E c \in Clients : LoginRequestSerial("h1", c, "rhi@salon", RightPassword, FALSE)
  \/ \E p \in LoginProcs : LoginSucceeded(p)
  \/ \E role \in Roles : SetRole(1, role)
  \/ \E h \in SerialHandlers, rr \in RequiredRoles : GuardedRoute(h, rr, loginRes.res.token)

RoleTokenSpec == AdminInit /\ [][RoleTokenNext]_vars

\* The call answered last came with a valid token whose embedded role is not the
\* role the account had when the call arrived.
RoleChangedSinceIssue ==
  /\ httpRes.op = "guarded"
  /\ Verified
  /\ httpRes.token.role # httpRes.role

\* C30: a call with a token issued before the account's role was changed is let
\* through when the role now stored is allowed on the route and refused 403 when it
\* is not, whatever role the token embeds.
C30_StoredRoleDecides ==
  RoleChangedSinceIssue =>
    IF httpRes.role \in httpRes.roles
      THEN httpRes.status = 200 /\ httpRes.ran
      ELSE httpRes.status = 403 /\ httpRes.error = "INSUFFICIENT_PERMISSIONS" /\ ~httpRes.ran

\* A token issued to an admin opened a route for super admins only after the
\* account had been made super admin.
C30_Witness ==
  /\ RoleChangedSinceIssue
  /\ httpRes.token = loginRes.res.token
  /\ httpRes.token.role = "admin"
  /\ httpRes.role = "super_admin"
  /\ httpRes.roles = {"super_admin"}
  /\ httpRes.status = 200 /\ httpRes.ran

====
